---- MODULE Spec2Model ----
(***************************************************************************)
(* A model of the light-transport core of rs_pbrt_edge: the BVH            *)
(* accelerator (src/accelerators/bvh.rs), Distribution1D and               *)
(* Distribution2D (src/core/sampling.rs), the MLT sampler                  *)
(* (src/integrators/mlt.rs), the BDPT tile loop and MIS weight             *)
(* (src/integrators/bdpt.rs), the BSDF lobe choice and                     *)
(* FourierBSDFTable::read (src/core/reflection.rs).                        *)
(*                                                                         *)
(* Arithmetic.  Floats are modelled by exact integers and fractions.       *)
(* Coordinates are integers, so sums, differences, products and            *)
(* comparisons are exact; a quotient is kept as numerator and denominator  *)
(* and compared by cross-multiplication.  The IEEE special values the code *)
(* can produce are kept: a division 0/0 is NaN, and every comparison with  *)
(* NaN is false.                                                           *)
(*                                                                         *)
(* Indices.  The code's vectors are 0-based; the sequences of the model    *)
(* are 1-based, so element i of a vector v is v[i + 1] (At(v, i)).  Every  *)
(* index stored in the state (offset, first_prim_offset, primitive_number,  *)
(* node indices on the stack) is the code's 0-based value.                 *)
(***************************************************************************)
EXTENDS Integers, Sequences, FiniteSets, TLC

VARIABLES
    \* ---- BVHAccel (bvh.rs:113-118) and the arguments of BVHAccel::new
    p,                  \* the primitives handed to new: a sequence of world bounds
    max_prims_in_node,
    split_method,
    primitives,         \* ordered_prims: primitive numbers in leaf order
    nodes,              \* the flattened LinearBVHNode array
    arena,              \* the build nodes, in allocation order (kept for inspection)
    total_nodes,
    build_panicked,     \* assert_ne!(start, end) fired during the build
    bvh_pc,             \* "new" | "ready" | "answered"
    query,              \* the last ray query and its answer
    \* ---- Distribution1D (sampling.rs:17-21)
    distrib,            \* [func, cdf, func_int]
    sample,             \* the last sample drawn from distrib and what it returned
    \* ---- MLTSampler (mlt.rs:45-56) and the Markov chain that drives it
    sampler,            \* [x, current_iteration, large_step, last_large_step_iteration,
                        \*  stream_index, sample_index]
    chain,              \* where MLTIntegrator::render is in the chain's loop
    \* ---- one pixel sample of render_tile (bdpt.rs:916-1001)
    tile,               \* [max_depth, n_camera, n_light, t, s, connected, pc]
    \* ---- the weights mis_weight gives to the strategies of one path
    mis,                \* [k, pdf_cam, pdf_light, t, weights, pc]
    \* ---- Bsdf (reflection.rs:223-232)
    bxdfs,              \* Bsdf::bxdfs, the lobes in the order they were added
    bsdf_sample,        \* the last call of Bsdf::sample_f and what it returned
    \* ---- Distribution2D (sampling.rs:149-152)
    distrib2d,          \* [p_conditional_v, p_marginal]
    sample2d,           \* the last call of pdf or sample_continuous and its result
    \* ---- FourierBSDFTable (reflection.rs:64-77)
    table,              \* the table read is called on: [n_channels, filled]
    table_read,         \* the last call of read: the file and how the call ended
    \* ---- one call of generate_camera_subpath or generate_light_subpath
    walk,               \* the subpath under construction and where random_walk stands
    \* ---- MLTIntegrator::render (mlt.rs:405-552)
    render,             \* the bootstrap weights, the chains and their mutation counts
    \* ---- the pixel loop of BDPTIntegrator::render_tile (bdpt.rs:888-1012)
    pixel,              \* the pixel under way, its sample loop and the samples taken
    \* ---- DistantLight (distant.rs:20-32), a preprocess and a sample_le call
    light               \* the two locked fields and where each of the two calls stands

bvhVars == <<p, max_prims_in_node, split_method, primitives, nodes, arena,
             total_nodes, build_panicked, bvh_pc, query>>
distVars == <<distrib, sample>>
mltVars == <<sampler, chain>>
tileVars == <<tile>>
misVars == <<mis>>
bsdfVars == <<bxdfs, bsdf_sample>>
dist2Vars == <<distrib2d, sample2d>>
tableVars == <<table, table_read>>
walkVars == <<walk>>
renderVars == <<render>>
pixelVars == <<pixel>>
lightVars == <<light>>

vars == <<bvhVars, distVars, mltVars, tileVars, misVars, bsdfVars, dist2Vars, tableVars,
          walkVars, renderVars, pixelVars, lightVars>>

\* What each part of the model leaves alone.
notBVH == <<distVars, mltVars, tileVars, misVars, bsdfVars, dist2Vars, tableVars,
            walkVars, renderVars, pixelVars, lightVars>>
notDist == <<bvhVars, mltVars, tileVars, misVars, bsdfVars, dist2Vars, tableVars,
            walkVars, renderVars, pixelVars, lightVars>>
notMLT == <<bvhVars, distVars, tileVars, misVars, bsdfVars, dist2Vars, tableVars,
            walkVars, renderVars, pixelVars, lightVars>>
notTile == <<bvhVars, distVars, mltVars, misVars, bsdfVars, dist2Vars, tableVars,
            walkVars, renderVars, pixelVars, lightVars>>
notMIS == <<bvhVars, distVars, mltVars, tileVars, bsdfVars, dist2Vars, tableVars,
            walkVars, renderVars, pixelVars, lightVars>>
notBsdf == <<bvhVars, distVars, mltVars, tileVars, misVars, dist2Vars, tableVars,
            walkVars, renderVars, pixelVars, lightVars>>
notDist2 == <<bvhVars, distVars, mltVars, tileVars, misVars, bsdfVars, tableVars,
            walkVars, renderVars, pixelVars, lightVars>>
notTable == <<bvhVars, distVars, mltVars, tileVars, misVars, bsdfVars, dist2Vars,
            walkVars, renderVars, pixelVars, lightVars>>
notWalk == <<bvhVars, distVars, mltVars, tileVars, misVars, bsdfVars, dist2Vars, tableVars,
            renderVars, pixelVars, lightVars>>
notRender == <<bvhVars, distVars, mltVars, tileVars, misVars, bsdfVars, dist2Vars, tableVars,
            walkVars, pixelVars, lightVars>>
notPixel == <<bvhVars, distVars, mltVars, tileVars, misVars, bsdfVars, dist2Vars, tableVars,
            walkVars, renderVars, lightVars>>
notLight == <<bvhVars, distVars, mltVars, tileVars, misVars, bsdfVars, dist2Vars, tableVars,
            walkVars, renderVars, pixelVars>>

-----------------------------------------------------------------------------
\* Bounds of the model.

MaxPrims == 3           \* primitives of a scene
ChainMax == 69          \* primitives of the longest collinear scene
MaxCount == 3           \* function samples of a Distribution1D
MaxFunc == 2            \* largest function value
UGrid == 8              \* sample values u = a / UGrid
MaxIter == 2            \* mutations of the Markov chain
MaxIndex == 2           \* primary samples X_0 .. X_(MaxIndex - 1) are drawn
NumVals == 2            \* distinct sample values
MaxStreamIndex == 5     \* primary samples drawn in one evaluation of a path
MaxStreamDraws == 4     \* calls of get_1d in one evaluation of a path
MaxCells == 4           \* nu * nv: samples of a Distribution2D
MaxCols == 2            \* nu: samples in a row of a Distribution2D
MaxRows == 2            \* nv: rows of a Distribution2D
MaxDraws == 3           \* calls of get_1d in one run of the chain
MaxDepth == 3           \* integrator.max_depth
MaxK == 4               \* vertices of a weighed path
MaxPdf == 2             \* densities are 0 .. MaxPdf
MaxLobes == 3           \* lobes added to a Bsdf
MaxSkips == 2           \* medium boundaries a ray crosses between two vertices
MaxMutations == 2       \* mutations_per_pixel
MaxArea == 3            \* area of the film's sample bounds
MaxChains == 3          \* n_chains
MaxBootstrap == 2       \* bootstrap samples, n_bootstrap * (max_depth + 1)
MaxSpp == 2             \* samples per pixel
MaxPixels == 2          \* pixels of a tile
MaxPreprocess == 2      \* calls of DistantLight::preprocess
MaxReaders == 2         \* threads calling DistantLight::sample_le

\* Program constants.
Inf == 1000000          \* std::f32::INFINITY, also the empty box's sentinel
N_BUCKETS == 12
STACK_SIZE == 64
U16_RANGE == 65536      \* a u16 holds 0 .. 65535 (LinearBVHNode::n_primitives)
MAX_PRIMS_CAP == 255
N_SAMPLE_STREAMS == 3
MAX_BXDFS == 8

-----------------------------------------------------------------------------
\* Helpers.

Min(a, b) == IF a < b THEN a ELSE b
Max(a, b) == IF a > b THEN a ELSE b
At(s, i) == s[i + 1]
Range(s) == {s[i] : i \in DOMAIN s}

-----------------------------------------------------------------------------
\* Bounds3f (core/geometry.rs, not part of the sources at hand).

Bounds3f_default == [lo |-> <<Inf, Inf, Inf>>, hi |-> <<-Inf, -Inf, -Inf>>]

bnd3_union_bnd3f(b1, b2) ==
    [lo |-> [k \in 1..3 |-> Min(b1.lo[k], b2.lo[k])],
     hi |-> [k \in 1..3 |-> Max(b1.hi[k], b2.hi[k])]]

bnd3_union_pnt3f(b, pt) ==
    [lo |-> [k \in 1..3 |-> Min(b.lo[k], pt[k])],
     hi |-> [k \in 1..3 |-> Max(b.hi[k], pt[k])]]

surface_area(b) ==
    LET d == [k \in 1..3 |-> b.hi[k] - b.lo[k]]
    IN  2 * (d[1] * d[2] + d[1] * d[3] + d[2] * d[3])

\* 0, 1 or 2: the axis of the largest extent, z on a tie with it.
maximum_extent(b) ==
    LET d == [k \in 1..3 |-> b.hi[k] - b.lo[k]]
    IN  IF d[1] > d[2] /\ d[1] > d[3] THEN 0
        ELSE IF d[2] > d[3] THEN 1 ELSE 2

-----------------------------------------------------------------------------
\* BVHPrimitiveInfo::new.  The corners of every scene add up to an even
\* number on each axis, so the centroid 0.5 * p_min + 0.5 * p_max is exact.

BVHPrimitiveInfo_new(primitive_number, bounds) ==
    [primitive_number |-> primitive_number,
     bounds |-> bounds,
     centroid |-> [k \in 1..3 |-> (bounds.lo[k] + bounds.hi[k]) \div 2]]

BVHBuildNode_default ==
    [bounds |-> Bounds3f_default, child1 |-> 0, child2 |-> 0,
     split_axis |-> 0, first_prim_offset |-> 0, n_primitives |-> 0]

\* A leaf that always claims the start of ordered_prims.
init_leaf_at_zero(node, first, n, b) ==
    [node EXCEPT !.first_prim_offset = 0, !.n_primitives = n,
                 !.bounds = b, !.child1 = 0, !.child2 = 0]

\* An interior node that takes the bounds of its first child alone.
init_interior_first_child(node, axis, c0, c1, ar) ==
    [node EXCEPT !.n_primitives = 0,
                 !.bounds = ar[c0].bounds,
                 !.child1 = c0, !.child2 = c1, !.split_axis = axis]

\* child1/child2: Option<&BVHBuildNode> as an arena position, 0 for None.
init_leaf(node, first, n, b) ==
    [node EXCEPT !.first_prim_offset = first, !.n_primitives = n,
                 !.bounds = b, !.child1 = 0, !.child2 = 0]

init_interior(node, axis, c0, c1, ar) ==
    [node EXCEPT !.n_primitives = 0,
                 !.bounds = bnd3_union_bnd3f(ar[c0].bounds, ar[c1].bounds),
                 !.child1 = c0, !.child2 = c1, !.split_axis = axis]

-----------------------------------------------------------------------------
\* BVHAccel::recursive_build.  The build state st threads what the code
\* passes by mutable reference: primitive_info, the arena, ordered_prims,
\* total_nodes; panicked records assert_ne!(start, end).

SetMin(S) == CHOOSE x \in S : \A y \in S : x <= y
SetMax(S) == -SetMin({-x : x \in S})

\* The fold of bnd3_union_bnd3f over primitive_info[start..end), from the
\* empty box.
RangeBounds(info, idx) ==
    [lo |-> [k \in 1..3 |-> SetMin({At(info, i).bounds.lo[k] : i \in idx} \cup {Inf})],
     hi |-> [k \in 1..3 |-> SetMax({At(info, i).bounds.hi[k] : i \in idx} \cup {-Inf})]]

\* The fold of bnd3_union_pnt3f over the centroids of the range.
CentroidBounds(info, idx) ==
    [lo |-> [k \in 1..3 |-> SetMin({At(info, i).centroid[k] : i \in idx} \cup {Inf})],
     hi |-> [k \in 1..3 |-> SetMax({At(info, i).centroid[k] : i \in idx} \cup {-Inf})]]

\* (n_buckets * centroid_bounds.offset(centroid)[dim]) as usize, clamped.
BucketOf(cb, dim, centroid) ==
    LET num == N_BUCKETS * (centroid[dim + 1] - cb.lo[dim + 1])
        den == cb.hi[dim + 1] - cb.lo[dim + 1]
        b   == num \div den
    IN  IF b = N_BUCKETS THEN N_BUCKETS - 1 ELSE b

\* cost[i] = 1 + (count0 * b0.area + count1 * b1.area) / bounds.area is kept
\* as its numerator over the common denominator bounds.area.
CostNum(info, idx, cb, dim, i) ==
    LET in0 == {j \in idx : BucketOf(cb, dim, At(info, j).centroid) <= i}
        in1 == idx \ in0
    IN  Cardinality(in0) * surface_area(RangeBounds(info, in0))
        + Cardinality(in1) * surface_area(RangeBounds(info, in1))

\* A float quotient num / den with num, den >= 0: NaN when both are 0.
IsNaN(num, den) == den = 0 /\ num = 0
\* cost a < cost b for two costs over the same denominator den.
CostLess(a, b, den) ==
    /\ ~IsNaN(a, den) /\ ~IsNaN(b, den)
    /\ den > 0
    /\ a < b

\* The scan "if item < &min_cost" over cost[0..11): the first index of the
\* least cost, the index 0 when no comparison succeeds.
RECURSIVE MinCostScan(_, _, _, _)
MinCostScan(cost, den, i, best) ==
    IF i = N_BUCKETS - 1 THEN best
    ELSE MinCostScan(cost, den, i + 1,
                     IF CostLess(cost[i], cost[best], den) THEN i ELSE best)

\* min_cost < leaf_cost, with min_cost = 1 + num / den and leaf_cost = n.
MinCostBelowLeaf(num, den, n) ==
    /\ ~IsNaN(num, den)
    /\ den > 0
    /\ den + num < n * den

\* A decision that looks at the cost alone.
SplitWanted_by_cost_alone(n, max_prims, num, den) == MinCostBelowLeaf(num, den, n)

\* A decision that compares n with the cap of max_prims_in_node.
SplitWanted_above_cap(n, max_prims, num, den) ==
    n > MAX_PRIMS_CAP \/ MinCostBelowLeaf(num, den, n)

\* The SAH branch for n > 2 decides between a split and a leaf.
SplitWanted(n, max_prims, num, den) ==
    n > max_prims \/ MinCostBelowLeaf(num, den, n)

\* primitive_info[start..end) replaced by left followed by right.
Reorder(info, start, end, left, right) ==
    SubSeq(info, 1, start) \o left \o right \o SubSeq(info, end + 1, Len(info))

\* The partition closure: the primitives of the range whose bucket is at
\* most min_cost_split_bucket, in their order, then the others.
LeftOf(info, start, end, cb, dim, split) ==
    LET InLeft(pi) == BucketOf(cb, dim, pi.centroid) <= split
    IN  SelectSeq(SubSeq(info, start + 1, end), InLeft)

RightOf(info, start, end, cb, dim, split) ==
    LET NotInLeft(pi) == ~(BucketOf(cb, dim, pi.centroid) <= split)
    IN  SelectSeq(SubSeq(info, start + 1, end), NotInLeft)

\* The split, were mid to be put behind the second side.
SAHSplitAt_mid_at_end(max_prims, info, start, end, cb, dim, min_cost, den, split, left) ==
    IF SplitWanted(end - start, max_prims, min_cost, den)
    THEN [leaf |-> FALSE,
          info |-> Reorder(info, start, end, left,
                           RightOf(info, start, end, cb, dim, split)),
          mid |-> end]
    ELSE [leaf |-> TRUE, info |-> info, mid |-> (start + end) \div 2]

\* "either create leaf or split primitives at selected SAH bucket"
SAHSplitAt(max_prims, info, start, end, cb, dim, min_cost, den, split, left) ==
    IF SplitWanted(end - start, max_prims, min_cost, den)
    THEN [leaf |-> FALSE,
          info |-> Reorder(info, start, end, left,
                           RightOf(info, start, end, cb, dim, split)),
          mid |-> start + Len(left)]
    ELSE [leaf |-> TRUE, info |-> info, mid |-> (start + end) \div 2]

SAHSplit(max_prims, info, start, end, cb, dim, cost, den, split) ==
    SAHSplitAt(max_prims, info, start, end, cb, dim, cost[split], den, split,
               LeftOf(info, start, end, cb, dim, split))

SAHBuckets(max_prims, info, start, end, cb, dim, cost, den) ==
    SAHSplit(max_prims, info, start, end, cb, dim, cost, den,
             MinCostScan(cost, den, 0, 0))

\* Partition, were Middle and EqualCounts to give the range up.
Partition_giving_up(method, max_prims, info, start, end, bounds, cb, dim) ==
    [leaf |-> TRUE, info |-> info, mid |-> (start + end) \div 2]

\* What the match on split_method leaves behind: the reordered
\* primitive_info, mid, and whether a leaf is to be made instead.
Partition(method, max_prims, info, start, end, bounds, cb, dim) ==
    IF method \in {"Middle", "EqualCounts"}
    THEN [leaf |-> FALSE, info |-> info, mid |-> (start + end) \div 2]
    ELSE IF end - start <= 2
    THEN [leaf |-> FALSE,
          info |-> IF start # end - 1
                      /\ At(info, end - 1).centroid[dim + 1]
                           < At(info, start).centroid[dim + 1]
                   THEN [info EXCEPT ![start + 1] = At(info, end - 1),
                                     ![end] = At(info, start)]
                   ELSE info,
          mid |-> (start + end) \div 2]
    ELSE SAHBuckets(max_prims, info, start, end, cb, dim,
                    [i \in 0 .. (N_BUCKETS - 2) |->
                        CostNum(info, start .. (end - 1), cb, dim, i)],
                    surface_area(bounds))

\* "create leaf _BVHBuildNode_": push the range onto ordered_prims.
MakeLeaf(st, id, start, end, bounds) ==
    [st EXCEPT
        !.ordered = @ \o [i \in 1 .. (end - start) |->
                             At(st.info, start + i - 1).primitive_number],
        !.arena[id] = init_leaf(@, Len(st.ordered), end - start, bounds)]

\* The recursion of recursive_build is run on an explicit call stack: a
\* frame is one activation, with its arguments start and end, the node it
\* allocated (id), and how far it has got: "call" on entry, "c1" while the
\* call for the second child runs, "c0" while the call for the first one
\* runs.  ret is the node the last finished activation returned.
Frame(start, end) ==
    [phase |-> "call", start |-> start, end |-> end,
     id |-> 0, dim |-> 0, mid |-> 0, c1 |-> 0]

Top(stack) == stack[Len(stack)]
PopFrame(stack) == SubSeq(stack, 1, Len(stack) - 1)

\* "return node"
BuildReturn(st, id) == [st EXCEPT !.stack = PopFrame(@), !.ret = id]

BuildLeaf(st, id, start, end, bounds) ==
    BuildReturn(MakeLeaf(st, id, start, end, bounds), id)

\* c1 = recursive_build(mid, end): "make sure we get result for c1 before c0"
BuildChildren(st, id, start, end, bounds, dim, part) ==
    IF part.leaf
    THEN BuildLeaf(st, id, start, end, bounds)
    ELSE [st EXCEPT
            !.info = part.info,
            !.stack = PopFrame(@)
                        \o << [phase |-> "c1", start |-> start, end |-> end,
                               id |-> id, dim |-> dim, mid |-> part.mid, c1 |-> 0],
                              Frame(part.mid, end) >>]

BuildSplit(method, max_prims, st, id, start, end, bounds, cb, dim) ==
    IF cb.hi[dim + 1] = cb.lo[dim + 1]
    THEN BuildLeaf(st, id, start, end, bounds)
    ELSE BuildChildren(st, id, start, end, bounds, dim,
                       Partition(method, max_prims, st.info, start, end,
                                 bounds, cb, dim))

BuildCentroids(method, max_prims, st, id, start, end, bounds, cb) ==
    BuildSplit(method, max_prims, st, id, start, end, bounds, cb,
               maximum_extent(cb))

BuildNode(method, max_prims, st, id, start, end, bounds) ==
    IF end - start = 1
    THEN BuildLeaf(st, id, start, end, bounds)
    ELSE BuildCentroids(method, max_prims, st, id, start, end, bounds,
                        CentroidBounds(st.info, start .. (end - 1)))

\* Entry of recursive_build(start, end): the assertion, the new node, the
\* bounds of the range.
BuildCall(method, max_prims, st, f) ==
    IF f.start = f.end
    THEN [st EXCEPT !.panicked = TRUE, !.done = TRUE]
    ELSE BuildNode(method, max_prims,
                   [st EXCEPT !.arena = Append(@, BVHBuildNode_default),
                              !.total_nodes = @ + 1],
                   Len(st.arena) + 1, f.start, f.end,
                   RangeBounds(st.info, f.start .. (f.end - 1)))

\* One step of the activation on top of the stack.
BuildFrame(method, max_prims, st, f) ==
    IF f.phase = "call"
    THEN BuildCall(method, max_prims, st, f)
    ELSE IF f.phase = "c1"
    THEN \* c0 = recursive_build(start, mid)
         [st EXCEPT !.stack = PopFrame(@)
                                \o << [f EXCEPT !.phase = "c0", !.c1 = st.ret],
                                      Frame(f.start, f.mid) >>]
    ELSE \* node.init_interior(dim, c0, c1)
         BuildReturn([st EXCEPT !.arena[f.id] =
                         init_interior(@, f.dim, st.ret, f.c1, st.arena)],
                     f.id)

recursive_build_step(method, max_prims, st) ==
    IF Len(st.stack) = 0
    THEN [st EXCEPT !.done = TRUE]
    ELSE BuildFrame(method, max_prims, st, Top(st.stack))

\* recursive_build: at most n steps from st, stopping when the outermost
\* activation has returned.  (The steps are run by halving n, which keeps
\* the evaluation shallow.)
RECURSIVE recursive_build(_, _, _, _)
recursive_build(method, max_prims, n, st) ==
    IF st.done THEN st
    ELSE IF n <= 1 THEN recursive_build_step(method, max_prims, st)
    ELSE recursive_build(method, max_prims, n - (n \div 2),
                         recursive_build(method, max_prims, n \div 2, st))

\* An activation makes one step if it emits a leaf and three otherwise, and
\* a range of n primitives has at most 2n - 1 nodes.
BuildFuel(n) == 6 * n + 1

\* BVHAccel::flatten_bvh_tree, on an explicit call stack as well: fl holds
\* linear_nodes, *offset, the stack and the offset the last finished call
\* returned.
LinearBVHNode_default ==
    [bounds |-> Bounds3f_default, offset |-> 0, n_primitives |-> 0, axis |-> 0]

FlatFrame(node) == [phase |-> "call", node |-> node, my_offset |-> 0]

\* let my_offset = *offset; *offset += 1; then the leaf, or the call for
\* the first child of an interior node
FlattenCall(ar, fl, f, bn) ==
    IF bn.n_primitives > 0
    THEN [fl EXCEPT !.nodes[fl.offset + 1] =
                        [bounds |-> bn.bounds,
                         offset |-> bn.first_prim_offset,
                         n_primitives |-> bn.n_primitives % U16_RANGE,
                         axis |-> 0],
                    !.offset = @ + 1,
                    !.stack = PopFrame(@),
                    !.ret = fl.offset]
    ELSE [fl EXCEPT !.offset = @ + 1,
                    !.stack = PopFrame(@)
                                \o << [f EXCEPT !.phase = "c1",
                                                !.my_offset = fl.offset] >>
                                \o (IF bn.child1 # 0 THEN << FlatFrame(bn.child1) >>
                                    ELSE << >>)]

\* A flattening that records the first child's position as the second's.
FlattenFrame_first_offset(ar, fl, f, bn) ==
    IF f.phase = "call"
    THEN FlattenCall(ar, fl, f, bn)
    ELSE IF f.phase = "c1" /\ bn.child2 # 0
    THEN [fl EXCEPT !.stack = PopFrame(@)
                                \o << [f EXCEPT !.phase = "c2"],
                                      FlatFrame(bn.child2) >>]
    ELSE IF f.phase = "c1"
    THEN [fl EXCEPT !.stack = PopFrame(@), !.ret = f.my_offset]
    ELSE [fl EXCEPT !.nodes[f.my_offset + 1] =
                        [bounds |-> bn.bounds,
                         offset |-> f.my_offset + 1,
                         n_primitives |-> 0,
                         axis |-> bn.split_axis],
                    !.stack = PopFrame(@),
                    !.ret = f.my_offset]

FlattenFrame(ar, fl, f, bn) ==
    IF f.phase = "call"
    THEN FlattenCall(ar, fl, f, bn)
    ELSE IF f.phase = "c1" /\ bn.child2 # 0
    THEN \* flatten_bvh_tree(child2, ...)
         [fl EXCEPT !.stack = PopFrame(@)
                                \o << [f EXCEPT !.phase = "c2"],
                                      FlatFrame(bn.child2) >>]
    ELSE IF f.phase = "c1"
    THEN [fl EXCEPT !.stack = PopFrame(@), !.ret = f.my_offset]
    ELSE \* nodes[my_offset] = the interior node, its offset what the call
         \* for child2 returned
         [fl EXCEPT !.nodes[f.my_offset + 1] =
                        [bounds |-> bn.bounds,
                         offset |-> fl.ret,
                         n_primitives |-> 0,
                         axis |-> bn.split_axis],
                    !.stack = PopFrame(@),
                    !.ret = f.my_offset]

flatten_bvh_tree_step(ar, fl) ==
    IF Len(fl.stack) = 0
    THEN [fl EXCEPT !.done = TRUE]
    ELSE FlattenFrame(ar, fl, Top(fl.stack), ar[Top(fl.stack).node])

RECURSIVE flatten_bvh_tree(_, _, _)
flatten_bvh_tree(ar, n, fl) ==
    IF fl.done THEN fl
    ELSE IF n <= 1 THEN flatten_bvh_tree_step(ar, fl)
    ELSE flatten_bvh_tree(ar, n - (n \div 2), flatten_bvh_tree(ar, n \div 2, fl))

\* BVHAccel::new: what the accelerator holds afterwards.
NewFlattened(built, flat) ==
    [primitives |-> built.ordered, nodes |-> flat.nodes,
     arena |-> built.arena,
     total_nodes |-> built.total_nodes, panicked |-> ~flat.done]

NewBuilt(built) ==
    IF built.panicked \/ ~built.done
    THEN [primitives |-> built.ordered, nodes |-> <<>>,
          arena |-> built.arena,
          total_nodes |-> built.total_nodes, panicked |-> TRUE]
    ELSE NewFlattened(built,
                      flatten_bvh_tree(built.arena, 3 * built.total_nodes + 1,
                                       [nodes |-> [i \in 1 .. built.total_nodes |->
                                                      LinearBVHNode_default],
                                        offset |-> 0,
                                        stack |-> << FlatFrame(built.ret) >>,
                                        ret |-> 0, done |-> FALSE]))

BVHAccel_new(prims, max_prims, method) ==
    IF Len(prims) = 0
    THEN [primitives |-> <<>>, nodes |-> <<>>, arena |-> <<>>,
          total_nodes |-> 0, panicked |-> FALSE]
    ELSE NewBuilt(recursive_build(
                      method, Min(max_prims, MAX_PRIMS_CAP), BuildFuel(Len(prims)),
                      [info |-> [i \in 1 .. Len(prims) |->
                                    BVHPrimitiveInfo_new(i - 1, prims[i])],
                       arena |-> <<>>, ordered |-> <<>>,
                       total_nodes |-> 0, panicked |-> FALSE,
                       stack |-> << Frame(0, Len(prims)) >>,
                       ret |-> 0, done |-> FALSE]))

-----------------------------------------------------------------------------
\* Rays.  A ray runs along one axis: d is +1 or -1 on ray.axis and 0 on the
\* other two, so inv_dir is +-1 there and +infinity elsewhere, and
\* dir_is_neg is set on ray.axis alone.

dir_is_neg(ray, axis) == IF axis = ray.axis /\ ray.neg THEN 1 ELSE 0

\* The slab a box cuts out of the ray: t_near and t_far along the ray's
\* axis, and whether the origin lies between the box's faces on the other
\* two axes (faces included: there the slab product is 0 * infinity = NaN,
\* which no rejection test catches).
Slab(b, ray) ==
    LET a == ray.axis + 1
    IN  [near   |-> IF ray.neg THEN ray.o[a] - b.hi[a] ELSE b.lo[a] - ray.o[a],
         far    |-> IF ray.neg THEN ray.o[a] - b.lo[a] ELSE b.hi[a] - ray.o[a],
         inside |-> \A k \in (1..3) \ {a} : b.lo[k] <= ray.o[k] /\ ray.o[k] <= b.hi[k]]

\* A box test that also rejects a box the ray starts in.
Bounds3f_intersect_p_from_outside(b, ray, t_max) ==
    LET s == Slab(b, ray)
    IN  s.inside /\ s.near < t_max /\ s.near > 0

\* Bounds3f::intersect_p(ray, inv_dir, dir_is_neg): (t_min < ray.t_max) && (t_max > 0).
Bounds3f_intersect_p(b, ray, t_max) ==
    LET s == Slab(b, ray)
    IN  s.inside /\ s.near < t_max /\ s.far > 0

\* A primitive's own intersection test, after Sphere::intersect
\* (sphere.rs:129-140).  The shape of a primitive is its box, t0 and t1 the
\* parameters where the ray enters and leaves it.  t0.upper_bound() lies
\* strictly above t0, so "t0.upper_bound() > t_max" rejects t0 >= t_max.
\* The result is the hit parameter, or -1 for a miss.
Shape_intersect(b, ray, t_max) ==
    LET s == Slab(b, ray)
    IN  IF ~s.inside THEN -1
        ELSE IF s.near >= t_max \/ s.far <= 0 THEN -1
        ELSE IF s.near <= 0
             THEN (IF s.far >= t_max THEN -1 ELSE s.far)
             ELSE s.near

-----------------------------------------------------------------------------
\* BVHAccel::intersect and BVHAccel::intersect_p: the traversal loop.  ls is
\* the loop's local state; any_hit distinguishes intersect_p, whose leaf
\* test returns at the first hit.

\* "for i in 0..node.n_primitives" of a leaf, from i on.
RECURSIVE LeafLoop(_, _, _, _, _, _)
LeafLoop(prims, ordered, node, ray, any_hit, ls) ==
    LET Step(i, l) ==
            LET num == At(ordered, node.offset + i)
                t   == Shape_intersect(prims[num + 1], ray, l.t_max)
            IN  IF t < 0
                THEN [l EXCEPT !.tested = @ \cup {num}, !.i = i + 1]
                ELSE IF any_hit
                THEN [l EXCEPT !.tested = @ \cup {num}, !.i = i + 1,
                               !.hit = TRUE, !.done = TRUE]
                ELSE [l EXCEPT !.tested = @ \cup {num}, !.i = i + 1,
                               !.hit = TRUE, !.t_max = t, !.hit_prim = num]
    IN  IF ls.i >= node.n_primitives \/ ls.done THEN ls
        ELSE LeafLoop(prims, ordered, node, ray, any_hit, Step(ls.i, ls))

\* A pop that ends the traversal whatever is left on the stack.
Pop_ending_traversal(ls) == [ls EXCEPT !.done = TRUE]

\* "if to_visit_offset == 0 { break } to_visit_offset -= 1; current = stack[..]"
Pop(ls) ==
    IF ls.to_visit_offset = 0
    THEN [ls EXCEPT !.done = TRUE]
    ELSE [ls EXCEPT !.to_visit_offset = @ - 1,
                    !.current_node_index = At(ls.nodes_to_visit, ls.to_visit_offset - 1)]

\* nodes_to_visit[to_visit_offset] = far; to_visit_offset += 1; current = near.
\* Writing past the array's STACK_SIZE entries panics.
Push(ls, far, near) ==
    IF ls.to_visit_offset >= STACK_SIZE
    THEN [ls EXCEPT !.overflow = TRUE, !.done = TRUE]
    ELSE [ls EXCEPT !.nodes_to_visit[ls.to_visit_offset + 1] = far,
                    !.to_visit_offset = @ + 1,
                    !.current_node_index = near,
                    !.max_stack = Max(@, ls.to_visit_offset + 1)]

\* One iteration of the traversal's loop, from the node at
\* current_node_index.
TraverseStep(lin, prims, ordered, ray, any_hit, ls) ==
    LET node == At(lin, ls.current_node_index)
        ls1  == [ls EXCEPT !.visited = @ \cup {ls.current_node_index}]
    IN  IF Bounds3f_intersect_p(node.bounds, ray, ls.t_max)
        THEN IF node.n_primitives > 0
             THEN LET l2 == LeafLoop(prims, ordered, node, ray, any_hit,
                                     [ls1 EXCEPT !.i = 0])
                  IN  IF l2.done THEN l2 ELSE Pop(l2)
             ELSE IF dir_is_neg(ray, node.axis) = 1
             THEN Push(ls1, ls.current_node_index + 1, node.offset)
             ELSE Push(ls1, node.offset, ls.current_node_index + 1)
        ELSE Pop(ls1)

\* The loop: at most n iterations from ls, stopping at the break, the
\* return or the panic.  (Run by halving n, as the build.)
RECURSIVE TraverseLoop(_, _, _, _, _, _, _)
TraverseLoop(lin, prims, ordered, ray, any_hit, n, ls) ==
    IF ls.done THEN ls
    ELSE IF n <= 1 THEN TraverseStep(lin, prims, ordered, ray, any_hit, ls)
    ELSE TraverseLoop(lin, prims, ordered, ray, any_hit, n - (n \div 2),
                      TraverseLoop(lin, prims, ordered, ray, any_hit, n \div 2, ls))

\* The answer of a query.  Every iteration visits a node no earlier one
\* visited, so Len(lin) iterations reach the end of the loop; finished
\* records that they did.
Traverse(lin, prims, ordered, ray, any_hit) ==
    LET ls0 == [current_node_index |-> 0, to_visit_offset |-> 0,
                nodes_to_visit |-> [k \in 1 .. STACK_SIZE |-> 0],
                hit |-> FALSE, t_max |-> ray.t_max, hit_prim |-> -1,
                tested |-> {}, visited |-> {}, i |-> 0,
                max_stack |-> 0, overflow |-> FALSE, done |-> FALSE]
        end == IF Len(lin) = 0 THEN [ls0 EXCEPT !.done = TRUE]
               ELSE TraverseLoop(lin, prims, ordered, ray, any_hit, Len(lin), ls0)
    IN  [kind |-> IF any_hit THEN "intersect_p" ELSE "intersect",
         ray |-> ray, hit |-> end.hit /\ ~end.overflow, t_max |-> end.t_max,
         hit_prim |-> end.hit_prim, tested |-> end.tested,
         visited |-> end.visited, max_stack |-> end.max_stack,
         overflow |-> end.overflow, finished |-> end.done]

BVHAccel_intersect(lin, prims, ordered, ray) == Traverse(lin, prims, ordered, ray, FALSE)
BVHAccel_intersect_p(lin, prims, ordered, ray) == Traverse(lin, prims, ordered, ray, TRUE)

NoQuery == [kind |-> "none", ray |-> [o |-> <<0, 0, 0>>, axis |-> 0, neg |-> FALSE,
                                       t_max |-> Inf],
            hit |-> FALSE, t_max |-> Inf, hit_prim |-> -1, tested |-> {},
            visited |-> {}, max_stack |-> 0, overflow |-> FALSE, finished |-> TRUE]

-----------------------------------------------------------------------------
\* Scenes and rays of the small model.

Box(x0, x1, y0, y1, z0, z1) == [lo |-> <<x0, y0, z0>>, hi |-> <<x1, y1, z1>>]

BoxTable ==
    << Box(0, 2, 0, 2, 0, 2),
       Box(4, 6, 0, 2, 0, 2),
       Box(0, 4, 0, 4, 0, 4),
       Box(0, 2, 4, 6, 0, 2) >>

Boxes == Range(BoxTable)

Scenes == UNION {[1 .. n -> Boxes] : n \in 0 .. MaxPrims}

SplitMethods == {"SAH", "HLBVH", "Middle", "EqualCounts"}
MaxPrimsChoices == {1, 4}

\* Origins before, inside and behind the scene on the ray's axis, and on
\* two lines across it on the other axes.
Rays ==
    {[o |-> [k \in 1..3 |-> IF k = a + 1 THEN along ELSE IF k = ((a + 1) % 3) + 1
                                                    THEN u ELSE v],
      axis |-> a, neg |-> ng, t_max |-> Inf] :
        a \in 0..2, ng \in BOOLEAN, along \in {-1, 3, 7}, u \in {1, 5}, v \in {1, 5}}

-----------------------------------------------------------------------------
\* The state of each part of the model while another part runs.

\* #[derive(Default)] of Distribution1D: no samples, func_int 0.0.
Distribution1D_default == [func |-> <<>>, cdf |-> <<>>, func_int |-> [num |-> 0, den |-> 1]]

NoSample == [kind |-> "none"]

DistIdle == distrib = Distribution1D_default /\ sample = NoSample

\* MLTSampler::new, with the stream_count MLTIntegrator::render passes.
PrimarySample_default ==
    [value |-> 0, last_modification_iteration |-> 0,
     value_backup |-> 0, modify_backup |-> 0]

MLTSampler_new ==
    [x |-> <<>>, current_iteration |-> 0, large_step |-> TRUE,
     last_large_step_iteration |-> 0, stream_index |-> 0, sample_index |-> 0]

\* No sample was drawn yet in the evaluation under way.
NoGet == [index |-> -1]

\* The chain before anything ran: pc is where the chain stands, used the
\* indices consumed so far, stale those of them with a large step accepted
\* after their last modification, accepts the number of accepted proposals.
ChainStart(pc) ==
    [pc |-> pc, initial |-> TRUE, x_before |-> <<>>,
     iteration_before |-> 0, next_stream |-> 0, consumed |-> {},
     draws |-> 0, iterations |-> 0,
     used |-> {}, stale |-> {}, accepts |-> 0, last |-> NoGet]

MLTIdle ==
    /\ sampler = MLTSampler_new
    /\ chain = ChainStart("idle")

\* No pixel sample is being rendered.
TileIdle ==
    tile = [max_depth |-> 0, n_camera |-> 0, n_light |-> 0, t |-> 0, s |-> 0,
            connected |-> {}, pc |-> "idle"]

\* No path is being weighed.
MISIdle ==
    mis = [k |-> 0, pdf_cam |-> <<>>, pdf_light |-> <<>>, t |-> 0,
           weights |-> <<>>, pc |-> "idle"]

\* Bsdf::new: no lobe, and no sample taken.
NoBsdfSample == [kind |-> "none"]

BsdfIdle == bxdfs = <<>> /\ bsdf_sample = NoBsdfSample

\* #[derive(Default)] of Distribution2D, and no query made.
Distribution2D_default ==
    [p_conditional_v |-> <<>>, p_marginal |-> Distribution1D_default]

Dist2Idle == distrib2d = Distribution2D_default /\ sample2d = NoSample

\* FourierBSDFTable::default(), and read not called.
FourierBSDFTable_default == [n_channels |-> 0, filled |-> FALSE]

NoRead == [kind |-> "none"]

TableIdle == table = FourierBSDFTable_default /\ table_read = NoRead

\* No subpath is being generated, render is not running, no tile is being
\* rendered, no distant light exists.
NoCall == [pc |-> "idle"]

WalkIdle == walk = NoCall
RenderIdle == render = NoCall
PixelIdle == pixel = NoCall
LightIdle == light = NoCall

IdleButBVH ==
    /\ DistIdle /\ MLTIdle /\ TileIdle /\ MISIdle /\ BsdfIdle /\ Dist2Idle /\ TableIdle
    /\ WalkIdle /\ RenderIdle /\ PixelIdle /\ LightIdle

BVHIdle ==
    /\ p = <<>> /\ max_prims_in_node = 1 /\ split_method = "SAH"
    /\ primitives = <<>> /\ nodes = <<>> /\ arena = <<>>
    /\ total_nodes = 0 /\ build_panicked = FALSE
    /\ bvh_pc = "idle" /\ query = NoQuery

IdleButDist ==
    /\ BVHIdle /\ MLTIdle /\ TileIdle /\ MISIdle /\ BsdfIdle /\ Dist2Idle /\ TableIdle
    /\ WalkIdle /\ RenderIdle /\ PixelIdle /\ LightIdle

IdleButMLT ==
    /\ BVHIdle /\ DistIdle /\ TileIdle /\ MISIdle /\ BsdfIdle /\ Dist2Idle /\ TableIdle
    /\ WalkIdle /\ RenderIdle /\ PixelIdle /\ LightIdle

IdleButTile ==
    /\ BVHIdle /\ DistIdle /\ MLTIdle /\ MISIdle /\ BsdfIdle /\ Dist2Idle /\ TableIdle
    /\ WalkIdle /\ RenderIdle /\ PixelIdle /\ LightIdle

IdleButMIS ==
    /\ BVHIdle /\ DistIdle /\ MLTIdle /\ TileIdle /\ BsdfIdle /\ Dist2Idle /\ TableIdle
    /\ WalkIdle /\ RenderIdle /\ PixelIdle /\ LightIdle

IdleButBsdf ==
    /\ BVHIdle /\ DistIdle /\ MLTIdle /\ TileIdle /\ MISIdle /\ Dist2Idle /\ TableIdle
    /\ WalkIdle /\ RenderIdle /\ PixelIdle /\ LightIdle

IdleButDist2 ==
    /\ BVHIdle /\ DistIdle /\ MLTIdle /\ TileIdle /\ MISIdle /\ BsdfIdle /\ TableIdle
    /\ WalkIdle /\ RenderIdle /\ PixelIdle /\ LightIdle

IdleButTable ==
    /\ BVHIdle /\ DistIdle /\ MLTIdle /\ TileIdle /\ MISIdle /\ BsdfIdle /\ Dist2Idle
    /\ WalkIdle /\ RenderIdle /\ PixelIdle /\ LightIdle

IdleButWalk ==
    /\ BVHIdle /\ DistIdle /\ MLTIdle /\ TileIdle /\ MISIdle /\ BsdfIdle /\ Dist2Idle /\ TableIdle
    /\ RenderIdle /\ PixelIdle /\ LightIdle

IdleButRender ==
    /\ BVHIdle /\ DistIdle /\ MLTIdle /\ TileIdle /\ MISIdle /\ BsdfIdle /\ Dist2Idle /\ TableIdle
    /\ WalkIdle /\ PixelIdle /\ LightIdle

IdleButPixel ==
    /\ BVHIdle /\ DistIdle /\ MLTIdle /\ TileIdle /\ MISIdle /\ BsdfIdle /\ Dist2Idle /\ TableIdle
    /\ WalkIdle /\ RenderIdle /\ LightIdle

IdleButLight ==
    /\ BVHIdle /\ DistIdle /\ MLTIdle /\ TileIdle /\ MISIdle /\ BsdfIdle /\ Dist2Idle /\ TableIdle
    /\ WalkIdle /\ RenderIdle /\ PixelIdle

-----------------------------------------------------------------------------
\* The accelerator's operations.

InitBVHWith(scenes) ==
    /\ p \in scenes
    /\ max_prims_in_node \in MaxPrimsChoices
    /\ split_method \in SplitMethods
    /\ primitives = <<>>
    /\ nodes = <<>>
    /\ arena = <<>>
    /\ total_nodes = 0
    /\ build_panicked = FALSE
    /\ bvh_pc = "new"
    /\ query = NoQuery
    /\ IdleButBVH

\* The accelerator takes over what BVHAccel::new computed.
NewWith(b) ==
    /\ primitives' = b.primitives
    /\ nodes' = b.nodes
    /\ arena' = b.arena
    /\ total_nodes' = b.total_nodes
    /\ build_panicked' = b.panicked

\* BVHAccel::new(p, max_prims_in_node, split_method)
New ==
    /\ bvh_pc = "new"
    /\ NewWith(BVHAccel_new(p, max_prims_in_node, split_method))
    /\ bvh_pc' = "ready"
    /\ UNCHANGED <<p, max_prims_in_node, split_method, query>>
    /\ UNCHANGED notBVH

IntersectWith(rays) ==
    /\ bvh_pc = "ready" /\ ~build_panicked
    /\ \E ray \in rays : query' = BVHAccel_intersect(nodes, p, primitives, ray)
    /\ bvh_pc' = "answered"
    /\ UNCHANGED <<p, max_prims_in_node, split_method, primitives, nodes, arena,
                   total_nodes, build_panicked>>
    /\ UNCHANGED notBVH

IntersectPWith(rays) ==
    /\ bvh_pc = "ready" /\ ~build_panicked
    /\ \E ray \in rays : query' = BVHAccel_intersect_p(nodes, p, primitives, ray)
    /\ bvh_pc' = "answered"
    /\ UNCHANGED <<p, max_prims_in_node, split_method, primitives, nodes, arena,
                   total_nodes, build_panicked>>
    /\ UNCHANGED notBVH

\* The caller takes the answer; a traversal that panicked never returns.
Return ==
    /\ bvh_pc = "answered" /\ ~query.overflow
    /\ bvh_pc' = "ready"
    /\ query' = NoQuery
    /\ UNCHANGED <<p, max_prims_in_node, split_method, primitives, nodes, arena,
                   total_nodes, build_panicked>>
    /\ UNCHANGED notBVH

InitBVH == InitBVHWith(Scenes)
Intersect == IntersectWith(Rays)
IntersectP == IntersectPWith(Rays)
NextBVH == New \/ Intersect \/ IntersectP \/ Return
SpecBVH == InitBVH /\ [][NextBVH]_vars

-----------------------------------------------------------------------------
\* Scenes that make the build degenerate into a chain: n point primitives on
\* the x axis.  Every box of such a scene has surface area 0, so each SAH
\* cost is 1 + 0/0.  The points are spaced so that bucket 0 of every range
\* holds its lowest point alone: ChainD(k) is the distance of point k from
\* the highest one, and ChainD(k) - ChainD(k-1) >= ChainD(k) / N_BUCKETS.

\* ChainD(0) = 0 and ChainD(k) = N_BUCKETS * ChainD(k - 1) \div
\* (N_BUCKETS - 1) + 1: Run[d, n] takes n such steps from d, in two halves
\* to keep the evaluation shallow.
ChainD(k) ==
    LET Run[d \in Nat, n \in Nat] ==
            IF n = 0 THEN d
            ELSE IF n = 1 THEN (N_BUCKETS * d) \div (N_BUCKETS - 1) + 1
            ELSE Run[Run[d, n \div 2], n - n \div 2]
    IN  Run[0, k]

ChainPoint(x) == Box(x, x, 0, 0, 0, 0)

ChainScene(n) == [i \in 1 .. n |-> ChainPoint(ChainD(n - 1) - ChainD(n - i))]

\* The scenes long enough for a chain of about STACK_SIZE levels.
ChainScenes == {ChainScene(n) : n \in STACK_SIZE .. ChainMax}

\* Rays along the line of the points, from before its low end and from
\* behind its high end, in both directions.
DeepRays ==
    {[o |-> <<x, 0, 0>>, axis |-> 0, neg |-> ng, t_max |-> Inf] :
        x \in {-1, ChainD(ChainMax) + 1}, ng \in BOOLEAN}

\* Build trees with leaves too large for the u16 of LinearBVHNode.  n
\* primitives with one and the same box have centroid bounds that are a
\* point, so recursive_build makes one leaf of them whatever n is; followed
\* by m primitives with another box, the SAH build (n + m is above
\* max_prims_in_node) puts bucket 0, the n primitives, to the left and the
\* m others to the right, and each side is a leaf.  The second child is
\* built first: it is the second node and its primitives come first.
WideCounts ==
    (1 .. MaxPrims) \cup ((U16_RANGE - MaxPrims) .. (U16_RANGE + MaxPrims))

WideLeaves(n, m) ==
    << BVHBuildNode_default,
       init_leaf(BVHBuildNode_default, 0, m, BoxTable[2]),
       init_leaf(BVHBuildNode_default, m, n, BoxTable[1]) >>

WideTree(n, m) ==
    IF m = 0
    THEN << init_leaf(BVHBuildNode_default, 0, n, BoxTable[1]) >>
    ELSE [WideLeaves(n, m) EXCEPT ![1] = init_interior(@, 0, 3, 2, WideLeaves(n, m))]

WideTrees == {WideTree(n, m) : n \in WideCounts, m \in {0} \cup WideCounts}

\* The state of BVHAccel::new between recursive_build and
\* flatten_bvh_tree; the primitives themselves are left out.
InitFlat ==
    /\ p = <<>> /\ primitives = <<>>
    /\ max_prims_in_node \in MaxPrimsChoices
    /\ split_method \in {"SAH", "HLBVH"}
    /\ arena \in WideTrees
    /\ total_nodes = Len(arena)
    /\ nodes = <<>>
    /\ build_panicked = FALSE
    /\ bvh_pc = "built"
    /\ query = NoQuery
    /\ IdleButBVH

\* flatten_bvh_tree(root, &mut nodes, &mut offset)
Flatten ==
    /\ bvh_pc = "built"
    /\ nodes' = flatten_bvh_tree(arena, 3 * total_nodes + 1,
                                 [nodes |-> [i \in 1 .. total_nodes |->
                                                LinearBVHNode_default],
                                  offset |-> 0,
                                  stack |-> << FlatFrame(1) >>,
                                  ret |-> 0, done |-> FALSE]).nodes
    /\ bvh_pc' = "ready"
    /\ UNCHANGED <<p, max_prims_in_node, split_method, primitives, arena,
                   total_nodes, build_panicked, query>>
    /\ UNCHANGED notBVH

NextFlat == Flatten
SpecFlat == InitFlat /\ [][NextFlat]_vars

InitDeep == InitBVHWith(ChainScenes)
IntersectDeep == IntersectWith(DeepRays)
IntersectPDeep == IntersectPWith(DeepRays)
NextDeep == New \/ IntersectDeep \/ IntersectPDeep \/ Return
SpecDeep == InitDeep /\ [][NextDeep]_vars

-----------------------------------------------------------------------------
\* Properties of the accelerator.

Built == bvh_pc # "new" /\ ~build_panicked /\ Len(p) > 0

IsInterior(i) == At(nodes, i).n_primitives = 0

\* Testing every primitive directly, in input order, as a linear scan that
\* shortens the ray at each hit.
RECURSIVE LinearScan(_, _, _, _)
LinearScan(prims, ray, i, acc) ==
    IF i > Len(prims) THEN acc
    ELSE LET t == Shape_intersect(prims[i], ray, acc.t_max)
         IN  LinearScan(prims, ray, i + 1,
                        IF t < 0 THEN acc ELSE [hit |-> TRUE, t_max |-> t])

BruteForce(prims, ray) == LinearScan(prims, ray, 1, [hit |-> FALSE, t_max |-> ray.t_max])

HitParams(prims, ray) ==
    {Shape_intersect(prims[i], ray, ray.t_max) : i \in 1 .. Len(prims)} \ {-1}

\* C1: whenever intersect returns on a non-empty set of primitives, it
\* returns true exactly when the linear scan over all primitives hits, the
\* ray's t_max afterwards is the minimum of the hit parameters of all
\* primitives, and the primitive it recorded is hit at that parameter.
C1_IntersectIsBruteForce ==
    (bvh_pc = "answered" /\ query.kind = "intersect" /\ ~query.overflow /\ Len(p) > 0) =>
        /\ query.hit = BruteForce(p, query.ray).hit
        /\ query.hit = (HitParams(p, query.ray) # {})
        /\ query.t_max = BruteForce(p, query.ray).t_max
        /\ query.hit =>
              /\ query.t_max = SetMin(HitParams(p, query.ray))
              /\ Shape_intersect(p[query.hit_prim + 1], query.ray, query.ray.t_max)
                    = query.t_max
        /\ ~query.hit => query.t_max = query.ray.t_max

\* A ray that hits several primitives at different parameters, in a tree of
\* several nodes, where the traversal skipped at least one primitive.
C1_Witness ==
    /\ bvh_pc = "answered" /\ query.kind = "intersect" /\ query.hit
    /\ Len(nodes) >= 3
    /\ Cardinality(HitParams(p, query.ray)) >= 2
    /\ Cardinality(query.tested) < Len(p)

\* The build node n is stored at index i of the flattened array, and so are
\* its descendants when the left child of an interior node is looked up at
\* i + 1 and the right child at nodes[i].offset.
RECURSIVE StoredAt(_, _)
StoredAt(n, i) ==
    /\ i \in 0 .. (Len(nodes) - 1)
    /\ At(nodes, i).bounds = arena[n].bounds
    /\ IF arena[n].n_primitives > 0
       THEN /\ At(nodes, i).n_primitives = arena[n].n_primitives
            /\ At(nodes, i).offset = arena[n].first_prim_offset
       ELSE /\ At(nodes, i).n_primitives = 0
            /\ At(nodes, i).axis = arena[n].split_axis
            /\ StoredAt(arena[n].child1, i + 1)
            /\ StoredAt(arena[n].child2, At(nodes, i).offset)

\* C7: in the flattened array both child indices of every interior node i,
\* i + 1 and nodes[i].offset, lie inside the array, and they hold the left
\* and the right child of the build node stored at i (the root, the first
\* build node, is stored at 0).
C7_FlatChildren ==
    Built =>
        /\ \A i \in 0 .. (Len(nodes) - 1) :
              IsInterior(i) =>
                 /\ i + 1 < Len(nodes)
                 /\ At(nodes, i).offset > i + 1
                 /\ At(nodes, i).offset < Len(nodes)
        /\ Len(nodes) = total_nodes /\ Len(arena) = total_nodes
        /\ StoredAt(1, 0)

\* A flattened tree with an interior node below the root whose left subtree
\* is not a single leaf, so that some offset differs from i + 2.
C7_Witness ==
    /\ Built /\ Len(nodes) >= 5
    /\ \E i \in 0 .. (Len(nodes) - 1) : IsInterior(i) /\ At(nodes, i).offset > i + 2

LeafRange(i) == At(nodes, i).offset .. (At(nodes, i).offset + At(nodes, i).n_primitives - 1)

FlatLeaves == {i \in 0 .. (Len(nodes) - 1) : ~IsInterior(i)}

ArenaLeaves == {n \in 1 .. Len(arena) : arena[n].n_primitives > 0}

\* C8: after the build the ranges [first_prim_offset, first_prim_offset +
\* n_primitives) of the leaves split the final primitives array without gap
\* or overlap, each range holds the primitives the leaf bounds, and the
\* array is a reordering of the input: every input primitive exactly once.
C8_LeafRangesPartition ==
    Built =>
        /\ Len(primitives) = Len(p)
        /\ Range(primitives) = 0 .. (Len(p) - 1)
        /\ \A k \in 0 .. (Len(primitives) - 1) :
              /\ Cardinality({i \in FlatLeaves : k \in LeafRange(i)}) = 1
              /\ Cardinality({n \in ArenaLeaves :
                     k \in arena[n].first_prim_offset ..
                           (arena[n].first_prim_offset + arena[n].n_primitives - 1)}) = 1
        /\ \A i \in FlatLeaves :
              /\ LeafRange(i) \subseteq 0 .. (Len(primitives) - 1)
              /\ At(nodes, i).bounds =
                    RangeBounds([k \in 1 .. Len(primitives) |->
                                    [bounds |-> p[primitives[k] + 1]]], LeafRange(i))

\* Three primitives reordered by the build into more than one leaf.
C8_Witness ==
    /\ Built /\ Len(p) = 3
    /\ Cardinality(FlatLeaves) >= 2
    /\ primitives # <<0, 1, 2>>

\* C9: the bounds of every interior node are the union of the bounds of its
\* two children, in the build tree and in the flattened array.
C9_InteriorBoundsAreUnion ==
    Built =>
        /\ \A n \in (1 .. Len(arena)) \ ArenaLeaves :
              /\ arena[n].child1 \in 1 .. Len(arena)
              /\ arena[n].child2 \in 1 .. Len(arena)
              /\ arena[n].bounds = bnd3_union_bnd3f(arena[arena[n].child1].bounds,
                                                    arena[arena[n].child2].bounds)
        /\ \A i \in (0 .. (Len(nodes) - 1)) \ FlatLeaves :
              At(nodes, i).bounds = bnd3_union_bnd3f(At(nodes, i + 1).bounds,
                                                     At(nodes, At(nodes, i).offset).bounds)

\* An interior node whose bounds differ from those of each of its children.
C9_Witness ==
    /\ Built
    /\ \E i \in (0 .. (Len(nodes) - 1)) \ FlatLeaves :
          /\ At(nodes, i).bounds # At(nodes, i + 1).bounds
          /\ At(nodes, i).bounds # At(nodes, At(nodes, i).offset).bounds

\* The leaves of the flattened array whose range holds primitive k.
LeavesOf(k) ==
    {i \in FlatLeaves : \E j \in LeafRange(i) : At(primitives, j) = k}

\* The ray of the query, as it was handed to intersect, intersects
\* primitive k.
Intersects(k) == Shape_intersect(p[k + 1], query.ray, query.ray.t_max) >= 0

\* The traversal visited a leaf that holds primitive k and tested k.
VisitedAndTested(k) ==
    k \in query.tested /\ LeavesOf(k) \cap query.visited # {}

IntersectAnswered ==
    bvh_pc = "answered" /\ query.kind = "intersect" /\ ~query.overflow /\ Len(p) > 0

\* C15 (as stated): for every ray and every primitive, the primitive's own
\* intersect succeeds exactly when the traversal visits the leaf that holds
\* the primitive and tests it.
C15_Original ==
    IntersectAnswered =>
        \A k \in 0 .. (Len(p) - 1) : Intersects(k) <=> VisitedAndTested(k)

\* C15 (amended): a primitive is tested only in a visited leaf that holds
\* it and whose bounds the ray crosses; a primitive the ray intersects is
\* tested unless the traversal ends with a hit that is no farther than the
\* primitive's; the primitive of the reported hit was tested.  A tested
\* primitive need not be intersected, and an intersected primitive behind
\* the reported hit need not be tested.
C15_TestedOrBehindTheHit ==
    IntersectAnswered =>
        /\ \A k \in query.tested :
              \E i \in LeavesOf(k) \cap query.visited :
                  Bounds3f_intersect_p(At(nodes, i).bounds, query.ray, query.ray.t_max)
        /\ \A k \in 0 .. (Len(p) - 1) :
              (Intersects(k) /\ k \notin query.tested) =>
                  /\ query.hit
                  /\ query.t_max <= Shape_intersect(p[k + 1], query.ray, query.ray.t_max)
        /\ query.hit => query.hit_prim \in query.tested

\* A query whose ray intersects a primitive that lies behind the reported
\* hit, in a leaf the traversal never tested.
C15_Witness ==
    /\ IntersectAnswered /\ query.hit
    /\ Len(nodes) >= 3
    /\ \E k \in (0 .. (Len(p) - 1)) \ query.tested :
          /\ Intersects(k)
          /\ query.t_max < Shape_intersect(p[k + 1], query.ray, query.ray.t_max)

\* The primitives below build node n.
RECURSIVE PrimsOf(_)
PrimsOf(n) ==
    IF arena[n].n_primitives > 0
    THEN {At(primitives, j) :
             j \in arena[n].first_prim_offset ..
                   (arena[n].first_prim_offset + arena[n].n_primitives - 1)}
    ELSE PrimsOf(arena[n].child1) \cup PrimsOf(arena[n].child2)

\* primitive_info as BVHAccel::new fills it, indexed by primitive number.
InputInfo == [i \in 1 .. Len(p) |-> BVHPrimitiveInfo_new(i - 1, p[i])]

\* What the SAH branch computes for a range holding the primitives idx:
\* the centroid bounds, the split axis, the numerators of the 11 costs and
\* their denominator, and the bucket of each primitive.
SahOfWith(idx, cb, dim) ==
    [n |-> Cardinality(idx), cb |-> cb, dim |-> dim,
     degenerate |-> cb.hi[dim + 1] = cb.lo[dim + 1],
     cost |-> [i \in 0 .. (N_BUCKETS - 2) |->
                  IF cb.hi[dim + 1] = cb.lo[dim + 1] THEN 0
                  ELSE CostNum(InputInfo, idx, cb, dim, i)],
     den |-> surface_area(RangeBounds(InputInfo, idx)),
     bucket |-> [k \in idx |->
                    IF cb.hi[dim + 1] = cb.lo[dim + 1] THEN 0
                    ELSE BucketOf(cb, dim, At(InputInfo, k).centroid)]]

SahOf(idx) ==
    SahOfWith(idx, CentroidBounds(InputInfo, idx),
              maximum_extent(CentroidBounds(InputInfo, idx)))

\* No split has a cost below that of split b.
MinimumCost(sah, b) ==
    \A i \in 0 .. (N_BUCKETS - 2) : ~CostLess(sah.cost[i], sah.cost[b], sah.den)

\* Build node n is interior and its children hold the primitives of idx
\* in the buckets up to b and those in the buckets above b.
SplitAtBucket(n, idx, sah, b) ==
    /\ arena[n].n_primitives = 0
    /\ arena[n].split_axis = sah.dim
    /\ PrimsOf(arena[n].child1) = {k \in idx : sah.bucket[k] <= b}
    /\ PrimsOf(arena[n].child2) = {k \in idx : sah.bucket[k] > b}
    /\ PrimsOf(arena[n].child1) # {} /\ PrimsOf(arena[n].child2) # {}

\* The SAH rule for build node n, sah being what the SAH branch computes
\* for its primitives.
SahRule(n, idx, sah) ==
    (sah.n > 2 /\ ~sah.degenerate) =>
        IF \/ sah.n > Min(max_prims_in_node, MAX_PRIMS_CAP)
           \/ \E b \in 0 .. (N_BUCKETS - 2) :
                 MinimumCost(sah, b) /\ MinCostBelowLeaf(sah.cost[b], sah.den, sah.n)
        THEN \E b \in 0 .. (N_BUCKETS - 2) :
                 MinimumCost(sah, b) /\ SplitAtBucket(n, idx, sah, b)
        ELSE /\ arena[n].n_primitives = sah.n
             /\ arena[n].child1 = 0 /\ arena[n].child2 = 0

\* The state BVHAccel::new leaves, for the two methods that take the SAH
\* branch.
SahBuilt == Built /\ bvh_pc = "ready" /\ split_method \in {"SAH", "HLBVH"}

\* C19: in the SAH build every range of n > 2 primitives whose centroid
\* bounds are not degenerate on the split axis is split by bucket at a
\* split of minimum cost, and recursed into, exactly when n >
\* max_prims_in_node or that cost is below n; otherwise it is one leaf of
\* the n primitives.
C19_SahSplitOrLeaf ==
    SahBuilt => \A n \in 1 .. Len(arena) : SahRule(n, PrimsOf(n), SahOf(PrimsOf(n)))

\* Three primitives that would fit one leaf and are split because the
\* minimum cost is below 3, two of them going to the first child.
C19_Witness ==
    /\ SahBuilt /\ Len(p) = 3 /\ max_prims_in_node > 3
    /\ ~SahOf(PrimsOf(1)).degenerate
    /\ arena[1].n_primitives = 0
    /\ Cardinality(PrimsOf(arena[1].child1)) = 2

\* The state BVHAccel::new leaves for the two methods whose match arms are
\* empty.
MiddleBuilt == Built /\ bvh_pc = "ready" /\ split_method \in {"Middle", "EqualCounts"}

\* The range of build node n has to be split: it holds several primitives
\* and their centroids differ on the split axis.
HasToBeSplit(sah) == sah.n >= 2 /\ ~sah.degenerate

\* What the build does with the primitives idx of node n when the match
\* arm is empty: mid stays (start + end) / 2 and primitive_info is not
\* reordered, so the first child gets the lower half of the primitive
\* numbers and the second child the others.
MiddleRule(n, idx, sah) ==
    IF HasToBeSplit(sah)
    THEN /\ arena[n].n_primitives = 0
         /\ arena[n].split_axis = sah.dim
         /\ PrimsOf(arena[n].child1) = {k \in idx : k < SetMin(idx) + sah.n \div 2}
         /\ PrimsOf(arena[n].child2) = {k \in idx : k >= SetMin(idx) + sah.n \div 2}
         /\ PrimsOf(arena[n].child1) # {} /\ PrimsOf(arena[n].child2) # {}
    ELSE /\ arena[n].n_primitives = sah.n
         /\ arena[n].child1 = 0 /\ arena[n].child2 = 0

\* C21 as stated: with Middle or EqualCounts no node is emitted for a range
\* that has to be split (here the range of all primitives), so that there is
\* no tree to walk.
C21_Original ==
    (MiddleBuilt /\ HasToBeSplit(SahOf(0 .. (Len(p) - 1)))) =>
        \/ Len(arena) = 0 \/ Len(nodes) = 0
        \/ arena[1].n_primitives = 0 /\ arena[1].child1 = 0 /\ arena[1].child2 = 0

\* C21, corrected: with Middle or EqualCounts a range that has to be split
\* is split at (start + end) / 2 without reordering and both halves are
\* built; every node is emitted and flattened, and every traversal of the
\* tree finishes without leaving the stack.
C21_MiddleSplitsInHalves ==
    /\ MiddleBuilt =>
          /\ Len(arena) = total_nodes /\ Len(nodes) = total_nodes
          /\ PrimsOf(1) = 0 .. (Len(p) - 1)
          /\ \A n \in 1 .. Len(arena) :
                MiddleRule(n, PrimsOf(n), SahOf(PrimsOf(n)))
    /\ (/\ Built /\ bvh_pc = "answered"
        /\ split_method \in {"Middle", "EqualCounts"}) =>
          query.finished /\ ~query.overflow

\* Three primitives whose range has to be split, built with an empty match
\* arm: one primitive below the first child, two below the second.
C21_Witness ==
    /\ MiddleBuilt /\ Len(p) = 3
    /\ HasToBeSplit(SahOf(0 .. (Len(p) - 1)))
    /\ arena[1].n_primitives = 0
    /\ PrimsOf(arena[1].child1) = {0}
    /\ PrimsOf(arena[1].child2) = {1, 2}
    /\ Len(nodes) >= 3

\* C25: recursive_build is never called on an empty range.  The build of a
\* scene ends without the assertion start != end firing, and within the
\* steps that 2n - 1 nodes take; every interior node it leaves has two
\* children that each hold at least one primitive and that share none.
C25_NoEmptyRange ==
    bvh_pc = "ready" =>
        /\ ~build_panicked
        /\ Len(p) > 0 =>
              /\ Len(arena) = total_nodes
              /\ total_nodes <= 2 * Len(p) - 1
              /\ PrimsOf(1) = 0 .. (Len(p) - 1)
              /\ \A n \in 1 .. Len(arena) :
                    arena[n].n_primitives = 0 =>
                        /\ arena[n].child1 \in 1 .. Len(arena)
                        /\ arena[n].child2 \in 1 .. Len(arena)
                        /\ PrimsOf(arena[n].child1) # {}
                        /\ PrimsOf(arena[n].child2) # {}
                        /\ PrimsOf(arena[n].child1) \cap PrimsOf(arena[n].child2) = {}

\* An SAH build of three primitives split by bucket into one and two, the
\* two split again: five nodes, no range empty.
C25_Witness ==
    /\ SahBuilt /\ Len(p) = 3 /\ total_nodes = 5
    /\ ~SahOf(PrimsOf(1)).degenerate
    /\ Cardinality(PrimsOf(arena[1].child1)) = 1
    /\ Cardinality(PrimsOf(arena[1].child2)) = 2

\* The centroids of the primitives idx are one point.
Coincident(idx) ==
    CentroidBounds(InputInfo, idx).lo = CentroidBounds(InputInfo, idx).hi

\* The leaves of the build tree.
Leaves == {n \in 1 .. Len(arena) : arena[n].n_primitives > 0}

\* C26 as stated: every leaf the build emits holds at most max_prims_in_node
\* primitives, capped at 255.
C26_Original ==
    (Built /\ bvh_pc = "ready") =>
        \A n \in Leaves :
            arena[n].n_primitives <= Min(max_prims_in_node, MAX_PRIMS_CAP)

\* C26, corrected: a leaf holds at most max_prims_in_node primitives
\* (capped at 255) unless the centroids of its primitives coincide; a range
\* of coincident centroids is one leaf whatever its size.
C26_LeavesFitUnlessCoincident ==
    (Built /\ bvh_pc = "ready") =>
        /\ \A n \in Leaves :
               \/ arena[n].n_primitives <= Min(max_prims_in_node, MAX_PRIMS_CAP)
               \/ Coincident(PrimsOf(n))
        /\ \A n \in 1 .. Len(arena) :
               Coincident(PrimsOf(n)) => n \in Leaves

\* Three primitives, at most one to a leaf: two of them share their
\* centroid and make one leaf, the third is a leaf of its own.
C26_Witness ==
    /\ Built /\ bvh_pc = "ready" /\ max_prims_in_node = 1 /\ Len(p) = 3
    /\ \E n \in Leaves : arena[n].n_primitives = 2 /\ Coincident(PrimsOf(n))
    /\ \E n \in Leaves : arena[n].n_primitives = 1

\* C20: every leaf of the build tree is stored with n_primitives > 0, its
\* primitive count, and with its first_prim_offset as offset, and every
\* interior node with n_primitives = 0, so that a flattened node reads as a
\* leaf exactly when it was built as one.
C20_LeafCountsKept ==
    (bvh_pc = "ready" /\ ~build_panicked /\ Len(arena) > 0) =>
        \A n \in 1 .. Len(arena) :
            \E i \in 0 .. (Len(nodes) - 1) :
                /\ At(nodes, i).bounds = arena[n].bounds
                /\ IF arena[n].n_primitives > 0
                   THEN /\ At(nodes, i).n_primitives > 0
                        /\ At(nodes, i).n_primitives = arena[n].n_primitives
                        /\ At(nodes, i).offset = arena[n].first_prim_offset
                   ELSE At(nodes, i).n_primitives = 0

\* C20 for trees whose leaves hold fewer than U16_RANGE primitives.
C20_SmallLeaves ==
    (/\ bvh_pc = "ready" /\ ~build_panicked /\ Len(arena) > 0
     /\ \A n \in 1 .. Len(arena) : arena[n].n_primitives < U16_RANGE) =>
        \A n \in 1 .. Len(arena) :
            \E i \in 0 .. (Len(nodes) - 1) :
                /\ At(nodes, i).bounds = arena[n].bounds
                /\ IF arena[n].n_primitives > 0
                   THEN /\ At(nodes, i).n_primitives > 0
                        /\ At(nodes, i).n_primitives = arena[n].n_primitives
                        /\ At(nodes, i).offset = arena[n].first_prim_offset
                   ELSE At(nodes, i).n_primitives = 0

\* The build of n coincident primitives followed by m others gives the
\* tree WideTree(n, m), for the counts the accelerator's model builds.
WideTreeIsBuilt ==
    (/\ Built /\ bvh_pc = "ready" /\ split_method \in {"SAH", "HLBVH"}
     /\ max_prims_in_node = 1) =>
        \A n \in 1 .. Len(p) :
            p = [i \in 1 .. Len(p) |-> IF i <= n THEN BoxTable[1] ELSE BoxTable[2]]
                => arena = WideTree(n, Len(p) - n)

\* C10: no traversal needs more than the STACK_SIZE entries of
\* nodes_to_visit: intersect and intersect_p never write past its end.
C10_StackSuffices ==
    bvh_pc = "answered" => (~query.overflow /\ query.max_stack <= STACK_SIZE)

-----------------------------------------------------------------------------
\* Distribution1D (sampling.rs).  The function values are natural numbers;
\* every Float derived from them is a fraction [num, den] with den > 0, not
\* reduced, compared by cross-multiplication.  A fraction with den = 0 is
\* what a division by zero leaves: 0/0 is NaN, and nothing equals NaN.

Frac(n, d) == [num |-> n, den |-> d]
FracLe(a, b) == a.den > 0 /\ b.den > 0 /\ a.num * b.den <= b.num * a.den
FracLt(a, b) == a.den > 0 /\ b.den > 0 /\ a.num * b.den < b.num * a.den
FracEq(a, b) == a.den > 0 /\ b.den > 0 /\ a.num * b.den = b.num * a.den
FracSub(a, b) == Frac(a.num * b.den - b.num * a.den, a.den * b.den)
\* a / b for b > 0
FracDiv(a, b) == Frac(a.num * b.den, a.den * b.num)
FracFloor(a) == a.num \div a.den

\* cdf[i] before the division by func_int, times n: f[0] + ... + f[i-1].
RECURSIVE PrefixSum(_, _)
PrefixSum(f, i) == IF i = 0 THEN 0 ELSE PrefixSum(f, i - 1) + f[i]

\* Distribution1D::new, were the cdf always the one of a zero integral.
Distribution1D_new_uniform_cdf(f) ==
    [func |-> f,
     cdf |-> [k \in 1 .. (Len(f) + 1) |-> Frac(k - 1, Len(f))],
     func_int |-> Frac(PrefixSum(f, Len(f)), Len(f))]

\* Distribution1D::new
Distribution1D_new(f) ==
    LET n == Len(f)
        total == PrefixSum(f, n)
    IN  [func |-> f,
         cdf |-> [k \in 1 .. (n + 1) |->
                     IF k = 1 THEN Frac(0, 1)
                     ELSE IF total = 0 THEN Frac(k - 1, n)
                     ELSE Frac(PrefixSum(f, k - 1), total)],
         func_int |-> Frac(total, n)]

\* A search that takes cdf[index] < u for its predicate.
RECURSIVE find_interval_strict(_, _, _, _)
find_interval_strict(cdf, u, first, len) ==
    IF len > 0
    THEN IF FracLt(At(cdf, first + (len \div 2)), u)
         THEN find_interval_strict(cdf, u, first + (len \div 2) + 1, len - ((len \div 2) + 1))
         ELSE find_interval_strict(cdf, u, first, len \div 2)
    ELSE first

\* The bisection "while len > 0" with the predicate cdf[index] <= u: the
\* value of first when it ends.
RECURSIVE find_interval(_, _, _, _)
find_interval(cdf, u, first, len) ==
    IF len > 0
    THEN IF FracLe(At(cdf, first + (len \div 2)), u)
         THEN find_interval(cdf, u, first + (len \div 2) + 1, len - ((len \div 2) + 1))
         ELSE find_interval(cdf, u, first, len \div 2)
    ELSE first

\* clamp_t (core/pbrt.rs, not part of the sources at hand)
clamp_t(val, low, high) == IF val < low THEN low ELSE IF val > high THEN high ELSE val

SampleOffset(d, u) ==
    clamp_t(find_interval(d.cdf, u, 0, Len(d.cdf)) - 1, 0, Len(d.cdf) - 2)

\* "compute offset along CDF segment"
SampleDu(d, u, offset) ==
    IF FracLt(Frac(0, 1), FracSub(At(d.cdf, offset + 1), At(d.cdf, offset)))
    THEN FracDiv(FracSub(u, At(d.cdf, offset)),
                 FracSub(At(d.cdf, offset + 1), At(d.cdf, offset)))
    ELSE FracSub(u, At(d.cdf, offset))

\* (offset as Float + du) / self.count() as Float
SampleX(d, offset, du) == Frac(offset * du.den + du.num, du.den * Len(d.func))

\* Distribution1D::sample_continuous(u, pdf, off): what it returns and what
\* it stores through pdf and off.
SampleContinuousAt(d, u, offset) ==
    [kind |-> "continuous", u |-> u, off |-> offset,
     pdf |-> IF d.func_int.num > 0
             THEN FracDiv(Frac(At(d.func, offset), 1), d.func_int)
             ELSE Frac(0, 1),
     x |-> SampleX(d, offset, SampleDu(d, u, offset))]

sample_continuous(d, u) == SampleContinuousAt(d, u, SampleOffset(d, u))

\* Distribution1D::sample_discrete(u, pdf)
SampleDiscreteAt(d, u, offset) ==
    [kind |-> "discrete", u |-> u, off |-> offset,
     pdf |-> IF d.func_int.num > 0
             THEN FracDiv(Frac(At(d.func, offset), 1),
                          Frac(d.func_int.num * Len(d.func), d.func_int.den))
             ELSE Frac(0, 1)]

sample_discrete(d, u) == SampleDiscreteAt(d, u, SampleOffset(d, u))

\* The functions and the sample values of the small model: up to MaxCount
\* values in 0 .. MaxFunc, u on a grid of UGrid points of [0, 1).
Funcs == UNION {[1 .. n -> 0 .. MaxFunc] : n \in 1 .. MaxCount}
Us == {Frac(a, UGrid) : a \in 0 .. (UGrid - 1)}

InitDist ==
    /\ distrib = Distribution1D_default
    /\ sample = NoSample
    /\ IdleButDist

\* Distribution1D::new(f)
DistNew ==
    /\ distrib = Distribution1D_default
    /\ \E f \in Funcs : distrib' = Distribution1D_new(f)
    /\ sample' = NoSample
    /\ UNCHANGED notDist

SampleContinuous ==
    /\ distrib # Distribution1D_default
    /\ \E u \in Us : sample' = sample_continuous(distrib, u)
    /\ UNCHANGED distrib
    /\ UNCHANGED notDist

SampleDiscrete ==
    /\ distrib # Distribution1D_default
    /\ \E u \in Us : sample' = sample_discrete(distrib, u)
    /\ UNCHANGED distrib
    /\ UNCHANGED notDist

NextDist == DistNew \/ SampleContinuous \/ SampleDiscrete
SpecDist == InitDist /\ [][NextDist]_vars

\* The index floor(x * n) of a returned x.
SampleIndex == FracFloor(Frac(sample.x.num * Len(distrib.func), sample.x.den))

\* F: the normalised running sum of the function values, i / n for the
\* function that is 0 everywhere.
CdfIsRunningSum ==
    \A i \in 0 .. Len(distrib.func) :
        FracEq(At(distrib.cdf, i),
               IF PrefixSum(distrib.func, Len(distrib.func)) > 0
               THEN Frac(PrefixSum(distrib.func, i),
                         PrefixSum(distrib.func, Len(distrib.func)))
               ELSE Frac(i, Len(distrib.func)))

RoundTrip ==
    /\ SampleIndex \in 0 .. (Len(distrib.func) - 1)
    /\ SampleIndex = sample.off
    /\ FracLe(At(distrib.cdf, SampleIndex), sample.u)
    /\ FracLt(sample.u, At(distrib.cdf, SampleIndex + 1))

\* f[i] / func_int, as IEEE division
FuncOverInt(i) == FracDiv(Frac(At(distrib.func, i), 1), distrib.func_int)

\* C2 (as stated): sample_continuous returns x with F[i] <= u < F[i+1] for
\* i = floor(x * n), and the pdf it reports equals f[i] / func_int.
C2_Original ==
    sample.kind = "continuous" =>
        /\ RoundTrip
        /\ FracEq(sample.pdf, FuncOverInt(SampleIndex))

\* C2 (amended): for every function of n >= 1 non-negative samples and
\* every u in [0,1), sample_continuous returns x with F[i] <= u < F[i+1] for
\* i = floor(x * n), F being the normalised running sum; the pdf it reports
\* is f[i] / func_int when func_int > 0, and 0 when func_int = 0.
C2_RoundTripAndPdf ==
    sample.kind = "continuous" =>
        /\ CdfIsRunningSum
        /\ RoundTrip
        /\ IF distrib.func_int.num > 0
           THEN FracEq(sample.pdf, FuncOverInt(SampleIndex))
           ELSE FracEq(sample.pdf, Frac(0, 1))

\* A sample strictly inside a segment that is not the first one, of a
\* function with a zero-valued segment before it.
C2_Witness ==
    /\ sample.kind = "continuous"
    /\ distrib.func_int.num > 0
    /\ sample.off >= 2
    /\ \E j \in 0 .. (sample.off - 1) : At(distrib.func, j) = 0
    /\ FracLt(At(distrib.cdf, sample.off), sample.u)
    /\ sample.pdf.num > 0

\* C28: when the integral of the function is positive, sample_discrete
\* returns, for every u in [0, 1), an index whose function value is
\* positive, and reports a positive pdf, func[offset] / (func_int * n).
C28_DiscreteSampleHasWeight ==
    (sample.kind = "discrete" /\ distrib.func_int.num > 0) =>
        /\ sample.off \in 0 .. (Len(distrib.func) - 1)
        /\ At(distrib.func, sample.off) > 0
        /\ FracLt(Frac(0, 1), sample.pdf)
        /\ FracEq(sample.pdf,
                  FracDiv(Frac(At(distrib.func, sample.off), 1),
                          Frac(PrefixSum(distrib.func, Len(distrib.func)), 1)))

\* A discrete sample with u on the border between a zero-valued segment
\* and the positive one after it, with zero-valued segments on both sides
\* of the index returned.
C28_Witness ==
    /\ sample.kind = "discrete" /\ distrib.func_int.num > 0
    /\ Len(distrib.func) = 3
    /\ At(distrib.func, 0) = 0 /\ At(distrib.func, 2) = 0
    /\ sample.off = 1
    /\ FracEq(sample.u, At(distrib.cdf, 1))

-----------------------------------------------------------------------------
\* MLTSampler (mlt.rs).  A sample value is one of NumVals values of [0, 1);
\* 0 stands for 0.0, the value of PrimarySample::default().

Vals == 0 .. (NumVals - 1)

\* PrimarySample::backup
backup(xi) ==
    [xi EXCEPT !.value_backup = xi.value,
               !.modify_backup = xi.last_modification_iteration]

\* A restore that brings back the value alone.
restore_value_only(xi) == [xi EXCEPT !.value = xi.value_backup]

\* PrimarySample::restore
restore(xi) ==
    [xi EXCEPT !.value = xi.value_backup,
               !.last_modification_iteration = xi.modify_backup]

\* A start_iteration that does not count the iteration.
start_iteration_uncounted(s, large) == [s EXCEPT !.large_step = large]

\* MLTSampler::start_iteration; large is rng.uniform_float() <
\* large_step_probability.
start_iteration(s, large) ==
    [s EXCEPT !.current_iteration = @ + 1, !.large_step = large]

\* MLTSampler::accept
accept(s) ==
    IF s.large_step
    THEN [s EXCEPT !.last_large_step_iteration = s.current_iteration]
    ELSE s

\* A reject that leaves the iteration counter where it is.
reject_keeping_counter(s) ==
    [s EXCEPT !.x = [i \in 1 .. Len(s.x) |->
                        IF s.x[i].last_modification_iteration = s.current_iteration
                        THEN restore(s.x[i])
                        ELSE s.x[i]]]

\* MLTSampler::reject
reject(s) ==
    [s EXCEPT !.x = [i \in 1 .. Len(s.x) |->
                        IF s.x[i].last_modification_iteration = s.current_iteration
                        THEN restore(s.x[i])
                        ELSE s.x[i]],
              !.current_iteration = @ - 1]

\* MLTSampler::start_stream
start_stream(s, index) == [s EXCEPT !.stream_index = index, !.sample_index = 0]

\* An index that counts the samples of all streams together.
NextIndex_without_stride(s) == s.stream_index + s.sample_index

\* MLTSampler::get_next_index: the index it returns
NextIndex(s) == s.stream_index + N_SAMPLE_STREAMS * s.sample_index

\* self.x.resize(index + 1, PrimarySample::default()) when index >= len
Resized(x, index) ==
    IF index >= Len(x)
    THEN x \o [k \in 1 .. (index + 1 - Len(x)) |-> PrimarySample_default]
    ELSE x

\* A reset that also runs for a sample modified in the iteration of the
\* last accepted large step.
Reset_when_not_newer(s, xi, u_reset) ==
    IF xi.last_modification_iteration <= s.last_large_step_iteration
    THEN [xi EXCEPT !.value = u_reset,
                    !.last_modification_iteration = s.last_large_step_iteration]
    ELSE xi

\* "reset X_i if a large step took place in the meantime"; u_reset is the
\* uniform value drawn for it.
Reset(s, xi, u_reset) ==
    IF xi.last_modification_iteration < s.last_large_step_iteration
    THEN [xi EXCEPT !.value = u_reset,
                    !.last_modification_iteration = s.last_large_step_iteration]
    ELSE xi

\* backup, then the large step or the small-step mutations: u_new is the
\* value they leave (a fresh uniform value, or the perturbed value wrapped
\* into [0, 1)).
Mutate(s, xi, u_new) ==
    [backup(xi) EXCEPT !.value = u_new,
                       !.last_modification_iteration = s.current_iteration]

\* MLTSampler::ensure_ready(index)
ensure_ready(s, index, u_reset, u_new) ==
    [s EXCEPT !.x = [Resized(s.x, index) EXCEPT ![index + 1] =
                        Mutate(s, Reset(s, @, u_reset), u_new)]]

\* MLTSampler::get_1d: get_next_index, ensure_ready
get_1d(s, u_reset, u_new) ==
    [ensure_ready(s, NextIndex(s), u_reset, u_new) EXCEPT !.sample_index = @ + 1]

\* The chain of MLTIntegrator::render: the sampler is made, the path is
\* evaluated once (l) without start_iteration, then every mutation is
\* start_iteration, l, and accept or reject.  l starts the camera, light
\* and connection streams in this order and draws samples from the stream
\* started last.
InitMLT ==
    /\ sampler = MLTSampler_new
    /\ chain = ChainStart("sampling")
    /\ IdleButMLT

StartIteration ==
    /\ \/ chain.pc \in {"accepted", "rejected"}
       \/ chain.pc = "sampling" /\ chain.initial
    /\ chain.iterations < MaxIter
    /\ \E large \in BOOLEAN : sampler' = start_iteration(sampler, large)
    /\ chain' = [chain EXCEPT !.pc = "sampling", !.initial = FALSE,
                              !.x_before = sampler.x,
                              !.iteration_before = sampler.current_iteration,
                              !.next_stream = 0, !.consumed = {},
                              !.iterations = @ + 1, !.last = NoGet]
    /\ UNCHANGED notMLT

StartStream ==
    /\ chain.pc = "sampling"
    /\ chain.next_stream < N_SAMPLE_STREAMS
    /\ sampler' = start_stream(sampler, chain.next_stream)
    /\ chain' = [chain EXCEPT !.next_stream = @ + 1]
    /\ UNCHANGED notMLT

\* What one get_1d did: the index it consumed, the stream and the sample
\* number it was called at, whether the index was consumed before (ever,
\* and in this evaluation), whether a large step was accepted after its
\* last modification, whether the reset ran and the value it drew, the
\* value that was stored, and whether the iteration is a large step.
GetRecord(s, c, u_reset) ==
    [index |-> NextIndex(s), stream |-> s.stream_index, sample |-> s.sample_index,
     first_time |-> (NextIndex(s) + 1) \notin c.used,
     again |-> (NextIndex(s) + 1) \in c.consumed,
     was_stale |-> (NextIndex(s) + 1) \in c.stale,
     reset |-> Reset(s, Resized(s.x, NextIndex(s))[NextIndex(s) + 1], u_reset)
                  # Resized(s.x, NextIndex(s))[NextIndex(s) + 1],
     draw |-> IF Reset(s, Resized(s.x, NextIndex(s))[NextIndex(s) + 1], u_reset)
                    # Resized(s.x, NextIndex(s))[NextIndex(s) + 1]
              THEN u_reset ELSE -1,
     stored |-> Resized(s.x, NextIndex(s))[NextIndex(s) + 1].value,
     large |-> s.large_step]

Get1DWith(u_reset, u_new) ==
    /\ sampler' = get_1d(sampler, u_reset, u_new)
    /\ chain' = [chain EXCEPT !.consumed = @ \cup {NextIndex(sampler) + 1},
                              !.draws = @ + 1,
                              !.used = @ \cup {NextIndex(sampler) + 1},
                              !.stale = @ \ {NextIndex(sampler) + 1},
                              !.last = GetRecord(sampler, chain, u_reset)]

Get1D ==
    /\ chain.pc = "sampling"
    /\ chain.next_stream > 0
    /\ NextIndex(sampler) < MaxIndex
    /\ chain.draws < MaxDraws
    /\ \E u_reset \in Vals, u_new \in Vals : Get1DWith(u_reset, u_new)
    /\ UNCHANGED notMLT

Accept ==
    /\ chain.pc = "sampling" /\ ~chain.initial /\ chain.next_stream > 0
    /\ sampler' = accept(sampler)
    /\ chain' = [chain EXCEPT !.pc = "accepted", !.next_stream = 0, !.consumed = {},
                              !.accepts = @ + 1, !.last = NoGet,
                              !.stale = IF sampler.large_step
                                        THEN chain.used \ chain.consumed
                                        ELSE @]
    /\ UNCHANGED notMLT

Reject ==
    /\ chain.pc = "sampling" /\ ~chain.initial /\ chain.next_stream > 0
    /\ sampler' = reject(sampler)
    /\ chain' = [chain EXCEPT !.pc = "rejected", !.next_stream = 0, !.last = NoGet]
    /\ UNCHANGED notMLT

NextMLT == StartIteration \/ StartStream \/ Get1D \/ Accept \/ Reject
SpecMLT == InitMLT /\ [][NextMLT]_vars

\* One evaluation of a path (l) on a new sampler, with more samples drawn
\* from each stream.
Get1DInStream ==
    /\ chain.pc = "sampling" /\ chain.initial
    /\ chain.next_stream > 0
    /\ NextIndex(sampler) < MaxStreamIndex
    /\ chain.draws < MaxStreamDraws
    /\ \E u_reset \in Vals, u_new \in Vals : Get1DWith(u_reset, u_new)
    /\ UNCHANGED notMLT

NextStreams == StartStream \/ Get1DInStream
SpecStreams == InitMLT /\ [][NextStreams]_vars

\* The samples that existed when the rejected iteration began.
Existing == 1 .. Len(chain.x_before)

SameAsBefore(i) ==
    /\ sampler.x[i].value = chain.x_before[i].value
    /\ sampler.x[i].last_modification_iteration
          = chain.x_before[i].last_modification_iteration

\* Sample i had not been brought up to date with the last accepted large
\* step when the iteration began.
Stale(i) ==
    chain.x_before[i].last_modification_iteration < sampler.last_large_step_iteration

\* C3 (as stated): after start_iteration, any number of consumed samples and
\* reject, every sample that existed before the iteration holds the value
\* and the last-modification iteration it held before the iteration began.
C3_Original ==
    chain.pc = "rejected" => \A i \in Existing : SameAsBefore(i)

\* C3 (amended): after start_iteration, any number of consumed samples and
\* reject, current_iteration is what it was, and every sample that existed
\* before the iteration holds the value and the last-modification iteration
\* it held before, unless it was stale and consumed in the iteration: such a
\* sample is left as ensure_ready reset it, stamped with the iteration of
\* the last accepted large step.
C3_RejectRestores ==
    chain.pc = "rejected" =>
        /\ Len(sampler.x) >= Len(chain.x_before)
        /\ sampler.current_iteration = chain.iteration_before
        /\ \A i \in Existing :
              IF Stale(i) /\ i \in chain.consumed
              THEN sampler.x[i].last_modification_iteration
                      = sampler.last_large_step_iteration
              ELSE SameAsBefore(i)

\* A rejected iteration that consumed one sample which existed before and
\* gave it another value, and left another existing sample alone.
C3_Witness ==
    /\ chain.pc = "rejected"
    /\ \E i \in Existing \cap chain.consumed, j \in Existing \ chain.consumed :
          /\ ~Stale(i)
          /\ chain.x_before[i].value # 0
          /\ chain.x_before[j].value # 0
          /\ SameAsBefore(i)
          /\ SameAsBefore(j)

\* A get_1d of the evaluation under way has just run.
Got == chain.pc = "sampling" /\ chain.last # NoGet

\* The sample the last get_1d consumed.
LastSample == sampler.x[chain.last.index + 1]

C11_FirstUseIsUniform ==
    (Got /\ chain.last.first_time) => (chain.last.reset \/ chain.last.large)

\* C16: when a sample consumed before is consumed again, the reset runs
\* exactly when a large step was accepted after the sample's last
\* modification; then the value the mutation starts from (the backed-up
\* value) is the fresh uniform draw, and otherwise it is the stored value.
C16_ResetAfterLargeStep ==
    (Got /\ ~chain.last.first_time) =>
        /\ chain.last.reset = chain.last.was_stale
        /\ IF chain.last.was_stale
           THEN /\ LastSample.value_backup = chain.last.draw
                /\ LastSample.modify_backup = sampler.last_large_step_iteration
           ELSE LastSample.value_backup = chain.last.stored
        /\ LastSample.last_modification_iteration = sampler.current_iteration

\* A small-step iteration consumed a sample that an accepted large step had
\* left behind, with a draw that differs from the stored value.
C16_Witness ==
    /\ Got /\ ~chain.last.first_time /\ ~chain.last.large
    /\ chain.last.was_stale
    /\ chain.last.draw # chain.last.stored
    /\ LastSample.value_backup = chain.last.draw

\* C17: start_iteration raises the counter by one, accept keeps it and
\* reject takes it back, so between iterations the counter is the number
\* of accepted proposals, and during an iteration it is one more.
C17_CounterIsAccepts ==
    /\ chain.pc \in {"accepted", "rejected"} => sampler.current_iteration = chain.accepts
    /\ chain.pc = "rejected" => sampler.current_iteration = chain.iteration_before
    /\ chain.pc = "accepted" => sampler.current_iteration = chain.iteration_before + 1
    /\ (chain.pc = "sampling" /\ ~chain.initial) =>
          sampler.current_iteration = chain.accepts + 1

\* A rejection after an accepted proposal.
C17_Witness ==
    /\ chain.pc = "rejected"
    /\ chain.accepts = 1
    /\ chain.iterations = 2
    /\ sampler.current_iteration = 1

\* The (stream, sample) pairs of the model and the index of each.
StreamSamples == (0 .. (N_SAMPLE_STREAMS - 1)) \X (0 .. MaxStreamIndex)
IndexOf(js) == NextIndex([stream_index |-> js[1], sample_index |-> js[2]])

\* C18: sample k of stream j is the primary sample j + 3 * k, no other
\* (stream, sample) pair has that index, and no get_1d consumes an index
\* that was consumed earlier in the same evaluation.
C18_StreamsInterleave ==
    Got =>
        /\ chain.last.stream \in 0 .. (N_SAMPLE_STREAMS - 1)
        /\ chain.last.index = chain.last.stream + 3 * chain.last.sample
        /\ \A a \in StreamSamples :
              IndexOf(a) = chain.last.index => a = <<chain.last.stream, chain.last.sample>>
        /\ ~chain.last.again

\* The second sample of a stream, consumed after a sample of another
\* stream in the same evaluation.
C18_Witness ==
    /\ Got
    /\ chain.last.sample = 1
    /\ Cardinality(chain.consumed) >= 3
    /\ \E i \in chain.consumed : (i - 1) % N_SAMPLE_STREAMS # chain.last.stream

-----------------------------------------------------------------------------
\* The connection loop of render_tile (bdpt.rs:954-1001) for one pixel
\* sample.

\* generate_camera_subpath(.., max_depth + 2, ..) stores the camera vertex
\* and the vertices of a random walk of at most max_depth + 1 bounces.
CameraLengths(max_depth) == 1 .. (max_depth + 2)

\* generate_light_subpath(.., max_depth + 1, ..) returns 0 when the light
\* cannot be sampled, else the light vertex and a random walk of at most
\* max_depth bounces.
LightLengths(max_depth) == 0 .. (max_depth + 1)

\* let depth: isize = (t + s) as isize - 2;
Depth(s, t) == (t + s) - 2

\* A test that keeps the strategy (s = 1, t = 1).
Skips_keeping_1_1(s, t, max_depth) ==
    Depth(s, t) < 0 \/ Depth(s, t) > max_depth

\* if (s == 1 && t == 1) || depth < 0 || depth > max_depth { continue; }
Skips(s, t, max_depth) ==
    \/ s = 1 /\ t = 1
    \/ Depth(s, t) < 0
    \/ Depth(s, t) > max_depth

\* The subpaths are traced and the loops begin: for t in 1..=n_camera,
\* for s in 0..=n_light.
InitTile ==
    /\ \E max_depth \in 0 .. MaxDepth :
         \E n_camera \in CameraLengths(max_depth), n_light \in LightLengths(max_depth) :
            tile = [max_depth |-> max_depth, n_camera |-> n_camera,
                    n_light |-> n_light, t |-> 1, s |-> 0,
                    connected |-> {}, pc |-> "loop"]
    /\ IdleButTile

InLoop == tile.pc = "loop" /\ tile.t <= tile.n_camera /\ tile.s <= tile.n_light

\* continue
Continue ==
    /\ InLoop
    /\ Skips(tile.s, tile.t, tile.max_depth)
    /\ tile' = [tile EXCEPT !.s = @ + 1]
    /\ UNCHANGED notTile

\* connect_bdpt(.., s, t, ..)
Connect ==
    /\ InLoop
    /\ ~Skips(tile.s, tile.t, tile.max_depth)
    /\ tile' = [tile EXCEPT !.connected = @ \cup {<<tile.s, tile.t>>},
                            !.s = @ + 1]
    /\ UNCHANGED notTile

\* The inner loop is exhausted: the next t.
NextT ==
    /\ tile.pc = "loop" /\ tile.t <= tile.n_camera /\ tile.s > tile.n_light
    /\ tile' = [tile EXCEPT !.t = @ + 1, !.s = 0]
    /\ UNCHANGED notTile

\* The outer loop is exhausted.
EndLoops ==
    /\ tile.pc = "loop" /\ tile.t > tile.n_camera
    /\ tile' = [tile EXCEPT !.pc = "done"]
    /\ UNCHANGED notTile

NextTile == Continue \/ Connect \/ NextT \/ EndLoops
SpecTile == InitTile /\ [][NextTile]_vars

\* The pairs the statement names, with t from t_min on.
Legal(t_min) ==
    {st \in (0 .. tile.n_light) \X (t_min .. tile.n_camera) :
        /\ st[1] + st[2] >= 2
        /\ 0 <= st[1] + st[2] - 2
        /\ st[1] + st[2] - 2 <= tile.max_depth
        /\ st # <<1, 1>>}

\* C4 (as stated): the tile renderer evaluates a connection for every pair
\* (s, t) with s <= n_light, t <= n_camera, s+t >= 2 and
\* 0 <= s+t-2 <= max_depth, except (1, 1), and for no other pair.
C4_Original == tile.pc = "done" => tile.connected = Legal(0)

\* C4 (amended): the tile renderer evaluates a connection for every pair
\* (s, t) with 0 <= s <= n_light, 1 <= t <= n_camera, s+t >= 2 and
\* 0 <= s+t-2 <= max_depth, except (1, 1), and for no other pair.
C4_ConnectsLegalPairs == tile.pc = "done" => tile.connected = Legal(1)

\* A pixel sample whose loops connected some pairs, skipped (1, 1), and
\* skipped a pair for its depth.
C4_Witness ==
    /\ tile.pc = "done"
    /\ tile.n_light >= 2 /\ tile.n_camera >= 2
    /\ <<0, 2>> \in tile.connected
    /\ <<1, 1>> \notin tile.connected
    /\ tile.n_light + tile.n_camera - 2 > tile.max_depth

-----------------------------------------------------------------------------
\* mis_weight (bdpt.rs:1518-2211).  A path x_0 .. x_(k-1) runs from the
\* camera (x_0) to the light (x_(k-1)).  The scene is known by the densities
\* of its sampling techniques: pdf_cam[j+1] is the area density with which a
\* walk from the camera generates x_j from its predecessors, pdf_light[j+1]
\* the density with which a walk from the light does (for x_(k-1): the
\* density of choosing it as the light's origin).  Densities are integers.

RECURSIVE Gcd(_, _)
Gcd(a, b) == IF b = 0 THEN a ELSE Gcd(b, a % b)

\* A fraction in lowest terms.
FracNorm(a) == Frac(a.num \div Gcd(a.num, a.den), a.den \div Gcd(a.num, a.den))
FracAdd(a, b) == FracNorm(Frac(a.num * b.den + b.num * a.den, a.den * b.den))
FracMul(a, b) == FracNorm(Frac(a.num * b.num, a.den * b.den))

PdfVals == 0 .. MaxPdf

\* What a walk may have left in a pdf_rev the strategy does not use.
StaleVals == {0, MaxPdf}

\* Vertex; idx is the vertex's position on the path.
Vertex(type, idx, pdf_fwd, pdf_rev) ==
    [vertex_type |-> type, idx |-> idx, delta |-> FALSE, delta_light |-> FALSE,
     pdf_fwd |-> pdf_fwd, pdf_rev |-> pdf_rev]

\* Option::None
NoVertex == Vertex("None", -1, 0, 0)

\* The first t vertices of a camera subpath along the path.  random_walk
\* stores a vertex's pdf_fwd when it creates it and the pdf_rev of the vertex
\* before it one step later (bdpt.rs:1262-1449): the last two vertices hold
\* a pdf_rev that does not belong to the path being weighed (stale).
CameraSubpath(path, t, stale) ==
    [j \in 1 .. t |->
        Vertex(IF j = 1 THEN "Camera" ELSE "Surface", j - 1,
               IF j = 1 THEN 0 ELSE path.pdf_cam[j],
               IF j <= t - 2 THEN path.pdf_light[j] ELSE stale)]

\* The first s vertices of a light subpath along the path.
LightSubpath(path, s, stale) ==
    [i \in 1 .. s |->
        Vertex(IF i = 1 THEN "Light" ELSE "Surface", path.k - i,
               path.pdf_light[path.k - i + 1],
               IF i <= s - 2 THEN path.pdf_cam[path.k - i + 1] ELSE stale)]

\* The vertex connect_bdpt samples: the camera vertex for t = 1
\* (create_camera_from_interaction), the light vertex for s = 1
\* (create_light_interaction, pdf_fwd = pdf_light_origin).
Sampled(path, s, t) ==
    IF s = 1 THEN Vertex("Light", path.k - 1, path.pdf_light[path.k], 0)
    ELSE IF t = 1 THEN Vertex("Camera", 0, 0, 0)
    ELSE Vertex("Surface", 0, 0, 0)

\* Vertex::pdf_light(v): the density of the direction from the light to v.
Vertex_pdf_light(path, self, v) == path.pdf_light[v.idx + 1]

\* Vertex::pdf_light_origin: the density of the light's origin.
Vertex_pdf_light_origin(path, self) == path.pdf_light[self.idx + 1]

\* Vertex::pdf(prev, next): the density with which the walk that came from
\* prev to self goes on to next.
Vertex_pdf(path, self, next) ==
    IF self.vertex_type = "Light" THEN Vertex_pdf_light(path, self, next)
    ELSE IF next.idx > self.idx THEN path.pdf_cam[next.idx + 1]
    ELSE path.pdf_light[next.idx + 1]

\* if s == 1 { qs = sampled }, then "mark connection vertices as
\* non-degenerate".
MisQs(lv, sampled, s) ==
    IF s = 1 THEN [sampled EXCEPT !.delta = FALSE]
    ELSE IF s > 0 THEN [At(lv, s - 1) EXCEPT !.delta = FALSE]
    ELSE NoVertex

\* else if t == 1 { pt = sampled }, then the same.
MisPt0(cv, sampled, s, t) ==
    IF s # 1 /\ t = 1 THEN [sampled EXCEPT !.delta = FALSE]
    ELSE IF t > 0 THEN [At(cv, t - 1) EXCEPT !.delta = FALSE]
    ELSE NoVertex

\* "update reverse density of vertex pt_{t-1}"
MisPt(path, pt, qs, s, t) ==
    IF pt = NoVertex THEN pt
    ELSE IF s > 0 THEN [pt EXCEPT !.pdf_rev = Vertex_pdf(path, qs, pt)]
    ELSE IF t > 1 THEN [pt EXCEPT !.pdf_rev = Vertex_pdf_light_origin(path, pt)]
    ELSE pt

\* A pt_minus that keeps the reverse density the walk stored.
MisPtMinus_as_stored(path, cv, pt, s, t) ==
    IF pt # NoVertex /\ t > 1 THEN At(cv, t - 2) ELSE NoVertex

\* "update reverse density of vertex pt_{t-2}"
MisPtMinus(path, cv, pt, s, t) ==
    IF pt # NoVertex /\ t > 1
    THEN [At(cv, t - 2) EXCEPT !.pdf_rev =
            IF s > 0 THEN Vertex_pdf(path, pt, At(cv, t - 2))
            ELSE Vertex_pdf_light(path, pt, At(cv, t - 2))]
    ELSE NoVertex

\* "update reverse density of vertices pq_{s-1} and pq_{s-2}"
MisQsRev(path, qs, pt) ==
    IF qs # NoVertex /\ pt # NoVertex
    THEN [qs EXCEPT !.pdf_rev = Vertex_pdf(path, pt, qs)]
    ELSE qs

MisQsMinus(path, lv, qs, s) ==
    IF qs # NoVertex /\ s > 1
    THEN [At(lv, s - 2) EXCEPT !.pdf_rev = Vertex_pdf(path, qs, At(lv, s - 2))]
    ELSE NoVertex

\* if numerator == 0.0 { numerator = 1.0 }, the same for the denominator
remap0(f) == IF f = 0 THEN 1 ELSE f

Ratio(v) == Frac(remap0(v.pdf_rev), remap0(v.pdf_fwd))

\* The vertices the camera loop reads at i.
CameraCv1(cv, pt, pt_minus, t, i) ==
    IF i = t - 1 THEN (IF pt # NoVertex THEN pt ELSE At(cv, i))
    ELSE IF i = t - 2 /\ pt_minus # NoVertex THEN pt_minus
    ELSE At(cv, i)

CameraCv0(cv, pt_minus, t, i) ==
    IF i = t - 1 /\ pt_minus # NoVertex THEN pt_minus ELSE At(cv, i - 1)

\* ri *= numerator / denominator; if !cv1.delta && !cv0.delta { sum_ri += ri }
SumAfter(sum_ri, ri, counted) == IF counted THEN FracAdd(sum_ri, ri) ELSE sum_ri

\* "consider hypothetical connection strategies along the camera subpath":
\* while i > 0, from i = t - 1.
RECURSIVE CameraLoop(_, _, _, _, _, _, _)
CameraBody(cv, pt, pt_minus, t, i, ri, sum_ri, cv1, cv0) ==
    CameraLoop(cv, pt, pt_minus, t, i - 1, ri,
               SumAfter(sum_ri, ri, ~cv1.delta /\ ~cv0.delta))

CameraLoop(cv, pt, pt_minus, t, i, ri, sum_ri) ==
    IF i > 0
    THEN CameraBody(cv, pt, pt_minus, t, i,
                    FracMul(ri, Ratio(CameraCv1(cv, pt, pt_minus, t, i))), sum_ri,
                    CameraCv1(cv, pt, pt_minus, t, i), CameraCv0(cv, pt_minus, t, i))
    ELSE sum_ri

\* The vertex the light loop reads at i.
LightLv1(lv, qs, qs_minus, s, i) ==
    IF i = s - 1 THEN (IF qs # NoVertex THEN qs ELSE At(lv, i))
    ELSE IF i = s - 2 /\ qs_minus # NoVertex THEN qs_minus
    ELSE At(lv, i)

DeltaLightvertex(lv, lv1, qs_minus, s, i) ==
    IF i > 0
    THEN IF i = s - 1 /\ qs_minus # NoVertex THEN qs_minus.delta
         ELSE At(lv, i - 1).delta
    ELSE lv1.vertex_type = "Light" /\ lv1.delta_light

\* "consider hypothetical connection strategies along the light subpath":
\* while i >= 0, from i = s - 1.
RECURSIVE LightLoop(_, _, _, _, _, _, _)
LightBody(lv, qs, qs_minus, s, i, ri, sum_ri, lv1) ==
    LightLoop(lv, qs, qs_minus, s, i - 1, ri,
              SumAfter(sum_ri, ri,
                       ~lv1.delta /\ ~DeltaLightvertex(lv, lv1, qs_minus, s, i)))

LightLoop(lv, qs, qs_minus, s, i, ri, sum_ri) ==
    IF i >= 0
    THEN LightBody(lv, qs, qs_minus, s, i,
                   FracMul(ri, Ratio(LightLv1(lv, qs, qs_minus, s, i))), sum_ri,
                   LightLv1(lv, qs, qs_minus, s, i))
    ELSE sum_ri

\* The two loops and 1 / (1 + sum_ri).
MisLoops(lv, cv, pt, pt_minus, qs, qs_minus, s, t) ==
    FracDiv(Frac(1, 1),
            FracAdd(Frac(1, 1),
                    LightLoop(lv, qs, qs_minus, s, s - 1, Frac(1, 1),
                        CameraLoop(cv, pt, pt_minus, t, t - 1, Frac(1, 1), Frac(0, 1)))))

MisWithQs(path, lv, cv, pt, pt_minus, qs, s, t) ==
    MisLoops(lv, cv, pt, pt_minus, qs, MisQsMinus(path, lv, qs, s), s, t)

MisWithPt(path, lv, cv, pt, qs, s, t) ==
    MisWithQs(path, lv, cv, pt, MisPtMinus(path, cv, pt, s, t),
              MisQsRev(path, qs, pt), s, t)

MisWithEnds(path, lv, cv, pt, qs, s, t) ==
    MisWithPt(path, lv, cv, MisPt(path, pt, qs, s, t), qs, s, t)

\* mis_weight(scene, light_vertices, camera_vertices, sampled, s, t, ..),
\* called with t >= 1 (t - 1 is computed in usize).
mis_weight(path, lv, cv, sampled, s, t) ==
    IF s + t = 2 THEN Frac(1, 1)
    ELSE MisWithEnds(path, lv, cv, MisPt0(cv, sampled, s, t),
                     MisQs(lv, sampled, s), s, t)

\* The paths: k vertices, every density one of PdfVals.  The densities of
\* x_0 are never read.
Paths(k) ==
    {[k |-> k, pdf_cam |-> c, pdf_light |-> l] :
        c \in {f \in [1 .. k -> PdfVals] : f[1] = 0},
        l \in {f \in [1 .. k -> PdfVals] : f[1] = 0}}

\* The strategies render_tile connects for a path of k vertices: t from 1
\* to k with s = k - t, except (s = 1, t = 1).
InitMIS ==
    /\ \E k \in 2 .. MaxK : \E path \in Paths(k) :
          mis = [k |-> k, pdf_cam |-> path.pdf_cam, pdf_light |-> path.pdf_light,
                 t |-> 1, weights |-> <<>>, pc |-> "weighing"]
    /\ IdleButMIS

\* The weight of the strategy (s = k - t, t), whatever the walks left in
\* the vertices the strategy does not use.
WeighStrategy ==
    /\ mis.pc = "weighing" /\ mis.t <= mis.k
    /\ ~Skips(mis.k - mis.t, mis.t, mis.k - 2)
    /\ \E stale \in StaleVals :
          mis' = [mis EXCEPT
                    !.weights = Append(@,
                        mis_weight(mis,
                                   LightSubpath(mis, Max(mis.k - mis.t, 1), stale),
                                   CameraSubpath(mis, mis.t, stale),
                                   Sampled(mis, mis.k - mis.t, mis.t),
                                   mis.k - mis.t, mis.t)),
                    !.t = @ + 1]
    /\ UNCHANGED notMIS

\* (s = 1, t = 1) is not connected.
SkipStrategy ==
    /\ mis.pc = "weighing" /\ mis.t <= mis.k
    /\ Skips(mis.k - mis.t, mis.t, mis.k - 2)
    /\ mis' = [mis EXCEPT !.t = @ + 1]
    /\ UNCHANGED notMIS

AllWeighed ==
    /\ mis.pc = "weighing" /\ mis.t > mis.k
    /\ mis' = [mis EXCEPT !.pc = "done"]
    /\ UNCHANGED notMIS

NextMIS == WeighStrategy \/ SkipStrategy \/ AllWeighed
SpecMIS == InitMIS /\ [][NextMIS]_vars

RECURSIVE FracSum(_, _)
FracSum(w, n) == IF n = 0 THEN Frac(0, 1) ELSE FracAdd(FracSum(w, n - 1), w[n])

-----------------------------------------------------------------------------
\* Bsdf::sample_f (reflection.rs:298-421).  A BxdfType is the set of its
\* flags; Bxdf::Empty has none and matches nothing.

BsdfAll == {"Reflection", "Transmission", "Diffuse", "Glossy", "Specular"}

Bxdf(kind, type) == [kind |-> kind, type |-> type]

Bxdfs ==
    {Bxdf("Empty", {}),
     Bxdf("LambertianRefl", {"Reflection", "Diffuse"}),
     Bxdf("SpecRefl", {"Reflection", "Specular"}),
     Bxdf("SpecTrans", {"Transmission", "Specular"})}

\* The flags a caller asks for.
FlagChoices ==
    {BsdfAll, BsdfAll \ {"Specular"}, BsdfAll \ {"Transmission"},
     BsdfAll \ {"Reflection"}}

\* Bxdf::matches_flags: get_type() & t == get_type()
matches_flags(bxdf, t) == bxdf.kind # "Empty" /\ bxdf.type \subseteq t

\* Bsdf::num_components
RECURSIVE NumComponentsUpTo(_, _, _)
NumComponentsUpTo(bs, flags, n) ==
    IF n = 0 THEN 0
    ELSE NumComponentsUpTo(bs, flags, n - 1)
            + (IF matches_flags(bs[n], flags) THEN 1 ELSE 0)

num_components(bs, flags) == NumComponentsUpTo(bs, flags, Len(bs))

\* min((u.x * matching_comps).floor() as u8, matching_comps - 1)
Comp(u, matching_comps) ==
    Min(FracFloor(Frac(u.num * matching_comps, u.den)), matching_comps - 1)

\* A search that counts every lobe, matching or not.
RECURSIVE FindBxdf_counting_all(_, _, _, _)
FindBxdf_counting_all(bs, flags, i, count) ==
    IF i >= Len(bs) THEN -1
    ELSE IF matches_flags(At(bs, i), flags) /\ count = 0 THEN i
    ELSE FindBxdf_counting_all(bs, flags, i + 1, count - 1)

\* "get BxDF pointer for chosen component": the index the loop stops at, or
\* -1 for None.
RECURSIVE FindBxdf(_, _, _, _)
FindBxdf(bs, flags, i, count) ==
    IF i >= Len(bs) THEN -1
    ELSE IF matches_flags(At(bs, i), flags) /\ count = 0 THEN i
    ELSE FindBxdf(bs, flags, i + 1,
                  IF matches_flags(At(bs, i), flags) THEN count - 1 ELSE count)

\* Bxdf::pdf of a lobe that was not chosen: 0 for a specular lobe, else the
\* value the caller's directions give.
Bxdf_pdf(bxdf, other_pdf) == IF "Specular" \in bxdf.type THEN 0 ELSE other_pdf

RECURSIVE OtherPdfs(_, _, _, _, _)
OtherPdfs(bs, flags, bxdf_index, other_pdf, n) ==
    IF n = 0 THEN 0
    ELSE OtherPdfs(bs, flags, bxdf_index, other_pdf, n - 1)
            + (IF bxdf_index # n - 1 /\ matches_flags(bs[n], flags)
               THEN Bxdf_pdf(bs[n], other_pdf) ELSE 0)

\* "compute overall PDF with all matching BxDFs"
OverallPdf(bs, flags, bxdf_index, matching_comps, lobe_pdf, other_pdf) ==
    Frac((IF "Specular" \notin At(bs, bxdf_index).type /\ matching_comps > 1
          THEN lobe_pdf + OtherPdfs(bs, flags, bxdf_index, other_pdf, Len(bs))
          ELSE lobe_pdf),
         IF matching_comps > 1 THEN matching_comps ELSE 1)

BsdfResult(ret, matching_comps, comp, bxdf_index, sampled, pdf, sampled_type) ==
    [kind |-> "sample_f", returned |-> ret, matching_comps |-> matching_comps,
     comp |-> comp, bxdf_index |-> bxdf_index, sampled |-> sampled,
     pdf |-> pdf, sampled_type |-> sampled_type]

\* sample_f once the lobe is chosen.  lobe_pdf is the pdf the lobe's own
\* sample_f reports.
SampleChosen(bs, flags, wo_z, pdf_in, type_in, lobe_pdf, other_pdf, matching_comps, comp, bxdf_index) ==
    IF bxdf_index = -1
    THEN BsdfResult("no_bxdf", matching_comps, comp, -1, -1, Frac(pdf_in, 1), type_in)
    ELSE IF wo_z = 0
    THEN BsdfResult("wo_z_zero", matching_comps, comp, bxdf_index, -1,
                    Frac(pdf_in, 1), type_in)
    ELSE IF lobe_pdf = 0
    THEN BsdfResult("pdf_zero", matching_comps, comp, bxdf_index, bxdf_index,
                    Frac(0, 1), {})
    ELSE BsdfResult("sampled", matching_comps, comp, bxdf_index, bxdf_index,
                    OverallPdf(bs, flags, bxdf_index, matching_comps, lobe_pdf, other_pdf),
                    IF type_in # {} THEN At(bs, bxdf_index).type ELSE type_in)

\* SpecularTransmission::sample_f: what *pdf holds when it returns, the
\* caller having stored 0.0 there.  When refract fails (total internal
\* reflection, tir) it returns a black spectrum without writing *pdf.
SpecularTransmission_sample_f(tir) == IF tir THEN 0 ELSE 1

\* The pdf the chosen lobe's sample_f leaves in *pdf.
LobePdf(bs, bxdf_index, lobe_pdf, tir) ==
    IF bxdf_index >= 0 /\ At(bs, bxdf_index).kind = "SpecTrans"
    THEN SpecularTransmission_sample_f(tir)
    ELSE lobe_pdf

SampleWith(bs, flags, u, wo_z, pdf_in, type_in, lobe_pdf, other_pdf, tir, matching_comps) ==
    IF matching_comps = 0
    THEN BsdfResult("no_match", 0, -1, -1, -1, Frac(0, 1), {})
    ELSE SampleChosen(bs, flags, wo_z, pdf_in, type_in,
                      LobePdf(bs, FindBxdf(bs, flags, 0, Comp(u, matching_comps)),
                              lobe_pdf, tir),
                      other_pdf,
                      matching_comps, Comp(u, matching_comps),
                      FindBxdf(bs, flags, 0, Comp(u, matching_comps)))

\* Bsdf::sample_f; sampled is the index of the lobe whose sample_f was
\* called, -1 when none was.
sample_f(bs, flags, u, wo_z, pdf_in, type_in, lobe_pdf, other_pdf, tir) ==
    SampleWith(bs, flags, u, wo_z, pdf_in, type_in, lobe_pdf, other_pdf, tir,
               num_components(bs, flags))

InitBsdf ==
    /\ bxdfs = <<>>
    /\ bsdf_sample = NoBsdfSample
    /\ IdleButBsdf

\* Bsdf::add
Add ==
    /\ bsdf_sample = NoBsdfSample
    /\ Len(bxdfs) < Min(MaxLobes, MAX_BXDFS)
    /\ \E b \in Bxdfs : bxdfs' = Append(bxdfs, b)
    /\ UNCHANGED bsdf_sample
    /\ UNCHANGED notBsdf

SampleF ==
    /\ bsdf_sample = NoBsdfSample
    /\ \E flags \in FlagChoices, u \in Us, wo_z \in {0, 1}, pdf_in \in {0, 1},
          type_in \in {{}, BsdfAll}, lobe_pdf \in {0, 1}, other_pdf \in {0, 1},
          tir \in BOOLEAN :
          bsdf_sample' = [sample_f(bxdfs, flags, u, wo_z, pdf_in, type_in,
                                   lobe_pdf, other_pdf, tir)
                          EXCEPT !.kind = "sample_f"]
                         @@ [flags |-> flags, u |-> u, wo_z |-> wo_z,
                             lobe_pdf |-> lobe_pdf, tir |-> tir]
    /\ UNCHANGED bxdfs
    /\ UNCHANGED notBsdf

\* The caller has used what sample_f returned.
SampleReturn ==
    /\ bsdf_sample # NoBsdfSample
    /\ bsdf_sample' = NoBsdfSample
    /\ UNCHANGED bxdfs
    /\ UNCHANGED notBsdf

NextBsdf == Add \/ SampleF \/ SampleReturn
SpecBsdf == InitBsdf /\ [][NextBsdf]_vars

\* The matching lobes, in list order.
Matching == {i \in 0 .. (Len(bxdfs) - 1) : matches_flags(At(bxdfs, i), bsdf_sample.flags)}

\* The lobe at position k among them.
MatchingAt(k) ==
    CHOOSE i \in Matching \cup {-1} :
        \/ i \in Matching /\ Cardinality({j \in Matching : j < i}) = k
        \/ i = -1 /\ \A m \in Matching : Cardinality({j \in Matching : j < m}) # k

ClaimedK ==
    Min(FracFloor(Frac(bsdf_sample.u.num * Cardinality(Matching), bsdf_sample.u.den)),
        Cardinality(Matching) - 1)

\* C6 (as stated): when M > 0 lobes match the flags, sample_f samples the
\* lobe at position k = min(floor(u.x * M), M - 1) among the matching lobes
\* in list order.
C6_Original ==
    (bsdf_sample.kind = "sample_f" /\ Cardinality(Matching) > 0) =>
        bsdf_sample.sampled = MatchingAt(ClaimedK)

\* C6 (amended): when M > 0 lobes match the flags, sample_f chooses the lobe
\* at position k = min(floor(u.x * M), M - 1) among the matching lobes in
\* list order, skipping the lobes that do not match, and samples it unless
\* wo has zero z in the shading frame: then it returns without sampling
\* any lobe.
C6_SamplesKthMatching ==
    (bsdf_sample.kind = "sample_f" /\ Cardinality(Matching) > 0) =>
        /\ bsdf_sample.matching_comps = Cardinality(Matching)
        /\ bsdf_sample.bxdf_index = MatchingAt(ClaimedK)
        /\ bsdf_sample.bxdf_index # -1
        /\ bsdf_sample.sampled = IF bsdf_sample.wo_z = 0 THEN -1
                                 ELSE MatchingAt(ClaimedK)

\* A sample of a lobe that is not the first matching one and that has a
\* lobe before it which does not match.
C6_Witness ==
    /\ bsdf_sample.kind = "sample_f"
    /\ Cardinality(Matching) > 1
    /\ ClaimedK > 0
    /\ bsdf_sample.sampled = MatchingAt(ClaimedK)
    /\ \E j \in 0 .. (bsdf_sample.sampled - 1) : j \notin Matching

\* The lobe sample_f chose is a SpecularTransmission whose refraction fails.
ChosenRefractFails ==
    /\ bsdf_sample.bxdf_index >= 0
    /\ At(bxdfs, bsdf_sample.bxdf_index).kind = "SpecTrans"
    /\ bsdf_sample.tir

\* The lobe sample_f chose reports a pdf of 0.
ChosenPdfZero ==
    /\ bsdf_sample.bxdf_index >= 0
    /\ At(bxdfs, bsdf_sample.bxdf_index).kind # "SpecTrans"
    /\ bsdf_sample.lobe_pdf = 0

\* sample_f returned Spectrum::default() from one of its early returns.
ReturnedBlack == bsdf_sample.returned \in {"no_match", "no_bxdf", "wo_z_zero", "pdf_zero"}

\* C13: when no lobe matches the flags, wo has zero z in the shading frame,
\* the chosen lobe reports a pdf of 0 or its refraction fails, sample_f
\* returns a black spectrum and the pdf it reports is 0.
C13_DegenerateIsBlackPdfZero ==
    (/\ bsdf_sample.kind = "sample_f"
     /\ \/ Cardinality(Matching) = 0
        \/ bsdf_sample.wo_z = 0
        \/ ChosenPdfZero
        \/ ChosenRefractFails) =>
        /\ ReturnedBlack
        /\ FracEq(bsdf_sample.pdf, Frac(0, 1))

\* C13 without the case of wo.z = 0.
C13_ExceptZeroZ ==
    (/\ bsdf_sample.kind = "sample_f"
     /\ bsdf_sample.wo_z # 0
     /\ \/ Cardinality(Matching) = 0
        \/ ChosenPdfZero
        \/ ChosenRefractFails) =>
        /\ ReturnedBlack
        /\ FracEq(bsdf_sample.pdf, Frac(0, 1))

-----------------------------------------------------------------------------
\* Distribution2D (sampling.rs:149-197): nv rows of nu function values.
\* The values of a row are multiples of nu, so that the integral of every
\* row (its sum divided by nu), which is the row's value in the marginal
\* distribution, is a whole number.

\* func[(v * nu) .. ((v + 1) * nu)]
Row(func, nu, v) == [k \in 1 .. nu |-> At(func, v * nu + (k - 1))]

\* p_conditional_v[v].func_int as the Float pushed to marginal_func
MarginalFunc(conditional) ==
    [k \in 1 .. Len(conditional) |-> FracFloor(conditional[k].func_int)]

\* Distribution2D::new(func, nu, nv)
Distribution2D_new(func, nu, nv) ==
    [p_conditional_v |-> [k \in 1 .. nv |-> Distribution1D_new(Row(func, nu, k - 1))],
     p_marginal |->
        Distribution1D_new(MarginalFunc(
            [k \in 1 .. nv |-> Distribution1D_new(Row(func, nu, k - 1))]))]

\* clamp_t((p * count as Float) as usize, 0, count - 1)
CellOf(x, count) == clamp_t(FracFloor(Frac(x.num * count, x.den)), 0, count - 1)

\* Distribution2D::pdf(p): the cell (iu, iv) of p and
\* p_conditional_v[iv].func[iu] / p_marginal.func_int
Distribution2D_pdf(d, pu, pv) ==
    [kind |-> "pdf", u |-> pu, v |-> pv,
     iu |-> CellOf(pu, Len(d.p_conditional_v[1].func)),
     iv |-> CellOf(pv, Len(d.p_marginal.func)),
     pdf |-> FracDiv(
                Frac(At(At(d.p_conditional_v, CellOf(pv, Len(d.p_marginal.func))).func,
                        CellOf(pu, Len(d.p_conditional_v[1].func))), 1),
                d.p_marginal.func_int)]

\* Distribution2D::sample_continuous(u, pdf), given the marginal sample d1
\* and the sample d0 of the row it chose.
SampleContinuous2DWith(pu, pv, d1, d0) ==
    [kind |-> "continuous", u |-> pu, v |-> pv, iu |-> d0.off, iv |-> d1.off,
     x |-> d0.x, y |-> d1.x, pdf |-> FracMul(d0.pdf, d1.pdf)]

Distribution2D_sample_continuous(d, pu, pv) ==
    SampleContinuous2DWith(pu, pv, sample_continuous(d.p_marginal, pv),
        sample_continuous(
            At(d.p_conditional_v, sample_continuous(d.p_marginal, pv).off), pu))

\* The functions of the small model: every cell is 0, nu or 2 * nu.
Funcs2D(nu, nv) == [1 .. (nu * nv) -> {0, nu, 2 * nu}]

InitDist2 ==
    /\ distrib2d = Distribution2D_default
    /\ sample2d = NoSample
    /\ IdleButDist2

\* Distribution2D::new(func, nu, nv)
Dist2New ==
    /\ distrib2d = Distribution2D_default
    /\ \E nu \in 1 .. MaxCols, nv \in 1 .. MaxRows :
          /\ nu * nv <= MaxCells
          /\ \E func \in Funcs2D(nu, nv) : distrib2d' = Distribution2D_new(func, nu, nv)
    /\ sample2d' = NoSample
    /\ UNCHANGED notDist2

Dist2Pdf ==
    /\ distrib2d # Distribution2D_default /\ sample2d = NoSample
    /\ \E pu \in Us, pv \in Us : sample2d' = Distribution2D_pdf(distrib2d, pu, pv)
    /\ UNCHANGED distrib2d
    /\ UNCHANGED notDist2

Dist2SampleContinuous ==
    /\ distrib2d # Distribution2D_default /\ sample2d = NoSample
    /\ \E pu \in Us, pv \in Us :
          sample2d' = Distribution2D_sample_continuous(distrib2d, pu, pv)
    /\ UNCHANGED distrib2d
    /\ UNCHANGED notDist2

\* The caller takes the result.
Dist2Return ==
    /\ sample2d # NoSample
    /\ sample2d' = NoSample
    /\ UNCHANGED distrib2d
    /\ UNCHANGED notDist2

NextDist2 == Dist2New \/ Dist2Pdf \/ Dist2SampleContinuous \/ Dist2Return
SpecDist2 == InitDist2 /\ [][NextDist2]_vars

\* The density Distribution1D d reports for its segment i (what
\* sample_continuous stores through pdf).
Density1D(d, i) == SampleContinuousAt(d, Frac(0, 1), i).pdf

\* C12: pdf(u, v) is the density of the marginal distribution at the row
\* of v times the density of that row's conditional distribution at the
\* cell of u.
C12_MarginalLaw ==
    sample2d.kind = "pdf" =>
        FracEq(sample2d.pdf,
               FracMul(Density1D(distrib2d.p_marginal, sample2d.iv),
                       Density1D(At(distrib2d.p_conditional_v, sample2d.iv), sample2d.iu)))

\* C12, where the function is not 0 everywhere.
C12_MarginalLawPositive ==
    (sample2d.kind = "pdf" /\ distrib2d.p_marginal.func_int.num > 0) =>
        FracEq(sample2d.pdf,
               FracMul(Density1D(distrib2d.p_marginal, sample2d.iv),
                       Density1D(At(distrib2d.p_conditional_v, sample2d.iv), sample2d.iu)))

-----------------------------------------------------------------------------
\* FourierBSDFTable::read (reflection.rs:80-199).  A file is what matters
\* of it to read: whether it can be opened, how many of its five parts are
\* there in full (the 8 bytes of the magic, the 9 integers, the float eta,
\* the 4 unused integers, the tables), whether the first 8 bytes are the
\* magic, and the three header fields read checks.

HEADER_PARTS == 4
FILE_PARTS == 5

Files ==
    {file \in [opens : BOOLEAN, parts : 0 .. FILE_PARTS, magic : BOOLEAN,
               flags : {0, 1, 2}, n_channels : {1, 2, 3, 4}, n_bases : {0, 1, 2}] :
        file.magic => file.parts >= 1}

\* "only a subset of BSDF files are supported"
Supported(file) ==
    file.flags = 1 /\ file.n_channels \in {1, 3} /\ file.n_bases = 1

\* How read ends: it returns false or true, or it panics.  The first
\* read_exact has no else branch; the tables are read with unwrap().
ReadOutcome(file) ==
    IF ~file.opens THEN "false"
    ELSE IF file.parts < 1 THEN "true"
    ELSE IF ~file.magic THEN "panic"
    ELSE IF file.parts < HEADER_PARTS THEN "panic"
    ELSE IF ~Supported(file) THEN "panic"
    ELSE IF file.parts < FILE_PARTS THEN "panic"
    ELSE "true"

\* What read has stored in self when it ends: n_channels is assigned as
\* soon as the 9 integers are read, the vectors are complete only when
\* read gets through.
ReadTable(file) ==
    [n_channels |-> IF file.opens /\ file.parts >= 2 /\ file.magic
                    THEN file.n_channels ELSE 0,
     filled |-> /\ file.opens /\ file.magic /\ file.parts = FILE_PARTS
                /\ Supported(file)]

InitTable ==
    /\ table = FourierBSDFTable_default
    /\ table_read = NoRead
    /\ IdleButTable

\* FourierBSDFTable::default().read(filename)
Read ==
    /\ table_read = NoRead
    /\ \E file \in Files :
          /\ table_read' = [kind |-> "read", file |-> file, outcome |-> ReadOutcome(file)]
          /\ table' = ReadTable(file)
    /\ UNCHANGED notTable

NextTable == Read
SpecTable == InitTable /\ [][NextTable]_vars

\* The file has the magic, all of its header, and the supported values.
GoodHeader(file) ==
    /\ file.parts >= HEADER_PARTS
    /\ file.magic
    /\ Supported(file)

\* C14: read of a file that can be opened panics unless the file has the
\* magic, a complete header, flags = 1, n_channels 1 or 3 and n_bases = 1,
\* and read never returns true for a file that lacks any of them.
C14_BadHeaderIsFatal ==
    table_read.kind = "read" =>
        /\ (table_read.outcome = "true") => GoodHeader(table_read.file)
        /\ (table_read.file.opens /\ ~GoodHeader(table_read.file)) =>
              table_read.outcome = "panic"

\* C14 for the files that hold at least the 8 bytes of the magic.
C14_WithMagicBytes ==
    (table_read.kind = "read" /\ table_read.file.parts >= 1) =>
        /\ (table_read.outcome = "true") =>
              (GoodHeader(table_read.file) /\ table.filled)
        /\ (table_read.file.opens /\ ~GoodHeader(table_read.file)) =>
              table_read.outcome = "panic"

-----------------------------------------------------------------------------
\* generate_camera_subpath, generate_light_subpath and random_walk
\* (bdpt.rs:1124-1461).  Of a path only its length is kept, of the
\* throughput beta only whether it is black.  What the scene, the medium
\* and the BSDF answer in an iteration of the walk is drawn freely.

\* path.push(vertex)
path_push(w) == [w EXCEPT !.len = @ + 1]

\* break
Break(w, why) == [w EXCEPT !.pc = "broke", !.stop = why]

\* A vertex is created and counted; it is stored, and the walk goes on
\* unless max_depth is reached or stop holds.
StoreVertex_uncounted(w, stop, why, black_after) ==
    IF stop
    THEN Break(path_push(w), why)
    ELSE path_push([w EXCEPT !.beta_black = black_after])

StoreVertex(w, stop, why, black_after) ==
    IF w.bounces + 1 >= w.d
    THEN Break(path_push([w EXCEPT !.bounces = @ + 1]), "depth")
    ELSE IF stop
    THEN Break(path_push([w EXCEPT !.bounces = @ + 1]), why)
    ELSE path_push([w EXCEPT !.bounces = @ + 1, !.beta_black = black_after])

\* "capture escaped rays when tracing from the camera"
EscapedRay(w) ==
    IF w.mode = "Radiance"
    THEN Break(path_push([w EXCEPT !.bounces = @ + 1]), "escaped")
    ELSE Break(w, "escaped")

\* One iteration of the loop of random_walk.  found: scene.intersect hit a
\* surface; spectrum_black: the ray is in a medium and medium.sample
\* returned black; mi, phase: it returned a medium interaction, with a
\* phase function; bsdf_none: the surface is a medium boundary; f_black:
\* sample_f returned black or a pdf of 0; black_after: beta is black after
\* the factors of the iteration.
WalkIteration(w, found, spectrum_black, mi, phase, bsdf_none, f_black, black_after) ==
    IF w.beta_black \/ spectrum_black
    THEN Break([w EXCEPT !.beta_black = TRUE], "black")
    ELSE IF mi
    THEN IF phase THEN StoreVertex(w, FALSE, "none", w.beta_black) ELSE w
    ELSE IF ~found
    THEN EscapedRay(w)
    ELSE IF bsdf_none
    THEN [w EXCEPT !.skips = @ + 1]
    ELSE StoreVertex(w, f_black, "sample", black_after)

\* Entry of random_walk(.., max_depth = d, mode, path).
random_walk(w, d, mode) ==
    IF d = 0
    THEN [w EXCEPT !.d = d, !.mode = mode, !.bounces = 0, !.pc = "broke",
                   !.stop = "no_depth", !.asserted = FALSE]
    ELSE [w EXCEPT !.d = d, !.mode = mode, !.bounces = 0, !.pc = "loop"]

\* The end of random_walk: the assertion, and the bounces returned to the
\* caller, which adds its own vertex.
WalkEnd(w) ==
    IF w.asserted /\ w.bounces + 1 # w.len
    THEN [w EXCEPT !.pc = "panicked"]
    ELSE [w EXCEPT !.pc = "returned", !.n = w.bounces + 1]

WalkStart(who, max_depth) ==
    [pc |-> "start", who |-> who, max_depth |-> max_depth, d |-> 0,
     mode |-> "Radiance", len |-> 0, bounces |-> 0, beta_black |-> FALSE,
     skips |-> 0, stop |-> "none", asserted |-> TRUE, n |-> 0]

\* generate_camera_subpath(.., integrator.max_depth + 2, ..)
generate_camera_subpath(w, max_depth, beta_black) ==
    IF max_depth = 0
    THEN [w EXCEPT !.pc = "returned", !.n = 0]
    ELSE random_walk(path_push([w EXCEPT !.beta_black = beta_black]),
                     max_depth - 1, "Radiance")

\* generate_light_subpath(.., integrator.max_depth + 1, ..); no_light:
\* sample_le gave a pdf of 0 or no radiance.
generate_light_subpath(w, max_depth, no_light) ==
    IF max_depth = 0 \/ no_light
    THEN [w EXCEPT !.pc = "returned", !.n = 0]
    ELSE random_walk(path_push(w), max_depth - 1, "Importance")

InitWalk ==
    /\ \E who \in {"camera", "light"}, max_depth \in 0 .. MaxDepth :
          walk = WalkStart(who, max_depth)
    /\ IdleButWalk

GenerateCameraSubpath ==
    /\ walk.pc = "start" /\ walk.who = "camera"
    /\ \E beta_black \in BOOLEAN :
          walk' = generate_camera_subpath(walk, walk.max_depth + 2, beta_black)
    /\ UNCHANGED notWalk

GenerateLightSubpath ==
    /\ walk.pc = "start" /\ walk.who = "light"
    /\ \E no_light \in BOOLEAN :
          walk' = generate_light_subpath(walk, walk.max_depth + 1, no_light)
    /\ UNCHANGED notWalk

\* An iteration of the loop; a ray crosses at most MaxSkips medium
\* boundaries in a row.
RandomWalkLoop ==
    /\ walk.pc = "loop"
    /\ \E found, medium, spectrum_black, mi, phase, bsdf_none, f_black,
          black_after \in BOOLEAN :
          /\ (spectrum_black \/ mi) => medium
          /\ phase => mi
          /\ bsdf_none => walk.skips < MaxSkips
          /\ walk' = WalkIteration(walk, found, spectrum_black, mi, phase,
                                   bsdf_none, f_black, black_after)
    /\ UNCHANGED notWalk

RandomWalkReturn ==
    /\ walk.pc = "broke"
    /\ walk' = WalkEnd(walk)
    /\ UNCHANGED notWalk

NextWalk ==
    GenerateCameraSubpath \/ GenerateLightSubpath \/ RandomWalkLoop \/ RandomWalkReturn
SpecWalk == InitWalk /\ [][NextWalk]_vars

\* The vertices random_walk appended: its caller had pushed one.
Appended == walk.len - 1

\* C22: a random walk asked for at most d bounces is in its loop only with
\* fewer than d bounces made, leaves it after d bounces, on a black
\* throughput, on an escaped ray or on a failed BSDF sample, and has then
\* appended exactly its bounces, at most d vertices; the camera subpath has
\* at most max_depth + 2 vertices and the light subpath at most
\* max_depth + 1.
C22_WalkIsBounded ==
    /\ walk.pc = "loop" => (walk.bounces < walk.d /\ Appended = walk.bounces)
    /\ (walk.pc \in {"broke", "returned"} /\ walk.len > 0) =>
          /\ Appended = walk.bounces
          /\ Appended <= walk.d
          /\ walk.stop = "depth" <=> (walk.d > 0 /\ walk.bounces = walk.d
                                         /\ walk.stop # "escaped")
          /\ walk.stop \in {"depth", "black", "escaped", "sample", "no_depth"}
    /\ walk.pc = "returned" =>
          /\ walk.n = walk.len
          /\ walk.who = "camera" => walk.n <= walk.max_depth + 2
          /\ walk.who = "light" => walk.n <= walk.max_depth + 1
    /\ walk.pc # "panicked"

\* A camera subpath of the greatest length allowed, max_depth + 2 vertices,
\* whose walk crossed a medium boundary and stopped on its depth.
C22_Witness ==
    /\ walk.pc = "returned" /\ walk.who = "camera"
    /\ walk.max_depth = 2 /\ walk.n = walk.max_depth + 2
    /\ walk.stop = "depth" /\ walk.skips > 0

-----------------------------------------------------------------------------
\* MLTIntegrator::render (integrators/mlt.rs): the bootstrap samples, the
\* share of the mutation budget each Markov chain gets, and the luminance of
\* the current state along a chain.  A luminance is a value 0 .. MaxFunc;
\* the scene has lights.

\* n_total_mutations = mutations_per_pixel as u64 * area as u64
n_total_mutations(r) == r.mutations_per_pixel * r.area

\* Shares that leave the remainder of the division out.
n_chain_mutations_rounded_down(i, n_total, n_chains) == n_total \div n_chains

\* n_chain_mutations of chain i
n_chain_mutations(i, n_total, n_chains) ==
    Min(((i + 1) * n_total) \div n_chains, n_total) - (i * n_total) \div n_chains

\* bootstrap = Distribution1D::new(bootstrap_weights), the weights being the
\* luminances l(..).y() of the bootstrap samples.
RenderBootstrap(r, weights) ==
    [r EXCEPT !.pc = "chain", !.weights = weights,
              !.bootstrap = Distribution1D_new(weights)]

\* The head of the loop over the chains: the chain's share, the initial
\* state drawn from the bootstrap samples, and l_current, which is the
\* luminance that sample had (same sampler seed, same depth).
ChainSelect(r, index) ==
    [r EXCEPT !.pc = "mutate",
              !.left = n_chain_mutations(r.i, n_total_mutations(r), r.n_chains),
              !.share = n_chain_mutations(r.i, n_total_mutations(r), r.n_chains),
              !.bootstrap_index = index,
              !.y_current = At(r.weights, index)]

ChainBegin(r, u) == ChainSelect(r, sample_discrete(r.bootstrap, u).off)

\* accept = (1.0).min(l_proposed.y() / l_current.y()).  A quotient by 0.0
\* is +infinity or NaN, and f32::min gives 1.0 for both.
AcceptProbability(y_proposed, y_current) ==
    IF y_current = 0 \/ y_proposed >= y_current
    THEN Frac(1, 1)
    ELSE Frac(y_proposed, y_current)

\* One mutation: the proposal's luminance, the acceptance probability, the
\* two splats and the accept or reject.  zero_divisor records a division
\* by a luminance of 0: in accept, or in a weight of a splat.
MutateWith(r, y_proposed, acc, u) ==
    [r EXCEPT !.left = @ - 1,
              !.zero_divisor = @ \/ r.y_current = 0
                                 \/ (acc.num > 0 /\ y_proposed = 0),
              !.y_current = IF FracLt(u, acc) THEN y_proposed ELSE @,
              !.accepted = @ + (IF FracLt(u, acc) THEN 1 ELSE 0)]

ChainMutate(r, y_proposed, u) ==
    MutateWith(r, y_proposed, AcceptProbability(y_proposed, r.y_current), u)

\* The end of the chain's loop and the step to the next chain.
ChainEnd(r) ==
    [r EXCEPT !.pc = IF r.i + 1 = r.n_chains THEN "done" ELSE "chain",
              !.i = @ + 1,
              !.given = @ + r.share]

RenderStart(mutations_per_pixel, area, n_chains) ==
    [pc |-> "bootstrap", mutations_per_pixel |-> mutations_per_pixel,
     area |-> area, n_chains |-> n_chains,
     weights |-> <<>>, bootstrap |-> Distribution1D_default,
     i |-> 0, given |-> 0, share |-> 0, left |-> 0,
     bootstrap_index |-> 0, y_current |-> 0, accepted |-> 0,
     zero_divisor |-> FALSE]

\* The luminances of the bootstrap samples.
BootstrapWeights == UNION {[1 .. n -> 0 .. MaxFunc] : n \in 1 .. MaxBootstrap}

InitRender ==
    /\ \E mutations_per_pixel \in 1 .. MaxMutations, area \in 0 .. MaxArea,
          n_chains \in 1 .. MaxChains :
          render = RenderStart(mutations_per_pixel, area, n_chains)
    /\ IdleButRender

Bootstrap ==
    /\ render.pc = "bootstrap"
    /\ \E weights \in BootstrapWeights : render' = RenderBootstrap(render, weights)
    /\ UNCHANGED notRender

StartChain ==
    /\ render.pc = "chain"
    /\ \E u \in Us : render' = ChainBegin(render, u)
    /\ UNCHANGED notRender

Mutation ==
    /\ render.pc = "mutate" /\ render.left > 0
    /\ \E y_proposed \in 0 .. MaxFunc, u \in Us :
          render' = ChainMutate(render, y_proposed, u)
    /\ UNCHANGED notRender

EndChain ==
    /\ render.pc = "mutate" /\ render.left = 0
    /\ render' = ChainEnd(render)
    /\ UNCHANGED notRender

NextRender == Bootstrap \/ StartChain \/ Mutation \/ EndChain
SpecRender == InitRender /\ [][NextRender]_vars

\* C23: the mutation counts given to the n_chains chains add up to the
\* total budget, mutations_per_pixel times the area of the sample bounds:
\* before chain i the chains 0 .. i - 1 have been given (i * total) /
\* n_chains, no share is negative, and after the last chain the sum is the
\* total.
C23_SharesAddUp ==
    /\ render.pc \in {"chain", "mutate", "done"} =>
          /\ render.given = (render.i * n_total_mutations(render)) \div render.n_chains
          /\ render.share >= 0 /\ render.left \in 0 .. render.share
    /\ render.pc = "done" => render.given = n_total_mutations(render)

\* All chains have run on a budget that n_chains does not divide.
C23_Witness ==
    /\ render.pc = "done" /\ render.n_chains > 1
    /\ n_total_mutations(render) % render.n_chains # 0
    /\ render.given = n_total_mutations(render)

\* C27: along every chain the luminance of the current state is positive,
\* and no acceptance probability or splat weight is computed with a zero
\* divisor.
C27_CurrentLuminancePositive ==
    render.pc = "mutate" => (render.y_current > 0 /\ ~render.zero_divisor)

\* With a bootstrap sample of positive luminance the current state of
\* every chain has a positive luminance.
PositiveBootstrapKeepsPositive ==
    (render.pc = "mutate" /\ render.bootstrap.func_int.num > 0) =>
        (render.y_current > 0 /\ ~render.zero_divisor)

-----------------------------------------------------------------------------
\* BDPTIntegrator::render_tile (integrators/bdpt.rs): the loop over the
\* pixels of a tile and the sample loop of a pixel.  inside tells for each
\* pixel of the tile whether it lies within integrator.pixel_bounds; counts
\* holds the samples handed to film_tile.add_sample per pixel.

\* light_sample_strategy is one of "uniform", "power", "spatial".
LightSampleStrategies == {"uniform", "power", "spatial"}

\* create_light_sample_distribution(name, scene) (core/lightdistrib.rs, not
\* part of the sources at hand): whether it is Some(distribution).
create_light_sample_distribution(name) == name \in LightSampleStrategies

\* Sampler::start_pixel (core/sampler.rs, not part of the sources at hand;
\* MLTSampler's is the same)
start_pixel(px) == [px EXCEPT !.index = 0]

\* Sampler::start_next_sample: the index after the increment is compared
\* with samples_per_pixel by the caller.
start_next_sample(px) == [px EXCEPT !.index = @ + 1]

\* "for p_pixel in &tile_bounds": the head of the loop, start_pixel and the
\* test against pixel_bounds.
ForPixel(px) ==
    IF px.k = Len(px.inside)
    THEN [px EXCEPT !.pc = "done"]
    ELSE IF ~At(px.inside, px.k)
    THEN [start_pixel(px) EXCEPT !.k = @ + 1]
    ELSE [start_pixel(px) EXCEPT !.pc = "sample"]

\* done = !tile_sampler.start_next_sample(), and the step to the next
\* pixel once done.
SampleDone(px) ==
    IF px.index < px.spp
    THEN px
    ELSE [px EXCEPT !.pc = "pixel", !.k = @ + 1]

\* The sample loop, were it never to get a light distribution.
SampleLoopBody_without_distribution(px, some) == px

\* One iteration of "while !done": with a light distribution a sample is
\* generated and added to the film tile; without one the body is empty and
\* done stays false.
SampleLoopBody(px, some) ==
    IF some
    THEN SampleDone(start_next_sample([px EXCEPT !.counts[px.k + 1] = @ + 1]))
    ELSE px

PixelStart(strategy, spp, inside) ==
    [pc |-> "pixel", strategy |-> strategy, spp |-> spp, inside |-> inside,
     k |-> 0, index |-> 0, counts |-> [i \in 1 .. Len(inside) |-> 0]]

InitPixel ==
    /\ \E strategy \in LightSampleStrategies, spp \in 1 .. MaxSpp,
          inside \in UNION {[1 .. n -> BOOLEAN] : n \in 1 .. MaxPixels} :
          pixel = PixelStart(strategy, spp, inside)
    /\ IdleButPixel

NextTilePixel ==
    /\ pixel.pc = "pixel"
    /\ pixel' = ForPixel(pixel)
    /\ UNCHANGED notPixel

SampleLoop ==
    /\ pixel.pc = "sample"
    /\ pixel' = SampleLoopBody(pixel,
                               create_light_sample_distribution(pixel.strategy))
    /\ UNCHANGED notPixel

NextPixel == NextTilePixel \/ SampleLoop
\* A tile is rendered by one thread from start to merge, which keeps
\* running.
SpecPixel == InitPixel /\ [][NextPixel]_vars /\ WF_vars(NextPixel)

\* The samples each pixel of the tile has when render_tile is through:
\* samples-per-pixel for a pixel within the pixel bounds, none otherwise.
TileSampled ==
    /\ pixel.pc = "done"
    /\ \A i \in 1 .. Len(pixel.inside) :
          pixel.counts[i] = IF pixel.inside[i] THEN pixel.spp ELSE 0

-----------------------------------------------------------------------------
\* DistantLight (lights/distant.rs): world_center and world_radius, each
\* behind its own RwLock, written by preprocess and read by sample_le.  A
\* value is the number of the preprocess call that wrote it, 0 for the one
\* DistantLight::new stores.  An RwLock is its writer flag: a read takes
\* the lock, copies the value and drops the guard within one statement.

DistantLight_new(n_readers) ==
    [pc |-> "run", world_center |-> 0, world_radius |-> 0,
     center_locked |-> FALSE, radius_locked |-> FALSE,
     pre |-> [pc |-> "call", n |-> 0],
     le |-> [t \in 1 .. n_readers |-> [pc |-> "call", world_center |-> 0,
                                       world_radius |-> 0]]]

\* preprocess may take its next step: a write lock is waited for.
PreprocessEnabled(l) ==
    /\ l.pre.pc = "call" => (l.pre.n < MaxPreprocess /\ ~l.center_locked)
    /\ l.pre.pc = "center_locked" => ~l.radius_locked

\* One step of DistantLight::preprocess: world_center.write(),
\* world_radius.write(), Bounds3f::bounding_sphere storing through both
\* guards, then the guards dropped in reverse order of their declaration.
preprocess(l) ==
    IF l.pre.pc = "call"
    THEN [l EXCEPT !.center_locked = TRUE, !.pre.pc = "center_locked",
                   !.pre.n = @ + 1]
    ELSE IF l.pre.pc = "center_locked"
    THEN [l EXCEPT !.radius_locked = TRUE, !.pre.pc = "both_locked"]
    ELSE IF l.pre.pc = "both_locked"
    THEN [l EXCEPT !.world_center = l.pre.n, !.world_radius = l.pre.n,
                   !.pre.pc = "written"]
    ELSE IF l.pre.pc = "written"
    THEN [l EXCEPT !.radius_locked = FALSE, !.pre.pc = "radius_dropped"]
    ELSE [l EXCEPT !.center_locked = FALSE, !.pre.pc = "call"]

\* sample_le of thread t may take its next step: a read lock is waited for.
SampleLeEnabled(l, t) ==
    /\ l.le[t].pc = "call" => ~l.center_locked
    /\ l.le[t].pc = "center_read" => ~l.radius_locked
    /\ l.le[t].pc # "returned"

\* One step of DistantLight::sample_le in thread t:
\* *self.world_center.read().unwrap(), then
\* *self.world_radius.read().unwrap(), each its own statement.
sample_le(l, t) ==
    IF l.le[t].pc = "call"
    THEN [l EXCEPT !.le[t].world_center = l.world_center,
                   !.le[t].pc = "center_read"]
    ELSE [l EXCEPT !.le[t].world_radius = l.world_radius,
                   !.le[t].pc = "returned"]

InitLight ==
    /\ \E n_readers \in 1 .. MaxReaders : light = DistantLight_new(n_readers)
    /\ IdleButLight

Preprocess ==
    /\ light.pc = "run"
    /\ PreprocessEnabled(light)
    /\ light' = preprocess(light)
    /\ UNCHANGED notLight

SampleLe ==
    /\ light.pc = "run"
    /\ \E t \in DOMAIN light.le :
          /\ SampleLeEnabled(light, t)
          /\ light' = sample_le(light, t)
    /\ UNCHANGED notLight

NextLight == Preprocess \/ SampleLe
SpecLight == InitLight /\ [][NextLight]_vars

\* C30: a sample_le that runs concurrently with preprocess uses a
\* world_center and a world_radius of one write: both from before the call
\* of preprocess or both from after it.
C30_CenterAndRadiusOfOneWrite ==
    light.pc = "run" =>
        \A t \in DOMAIN light.le :
            light.le[t].pc = "returned" =>
                light.le[t].world_center = light.le[t].world_radius

\* While the locks are held no reader sees one value written and the other
\* not: the two fields differ only between the two stores of preprocess.
LocksCoverTheWrites ==
    light.pc = "run" =>
        (light.world_center # light.world_radius =>
            (light.center_locked /\ light.radius_locked))

====
